---- MODULE Spec2Model ----
(***************************************************************************)
(* A model of the in-place initialization library: the slice writers       *)
(* (SliceWriter, PinSliceWriter, Writer), the slice initializers built on  *)
(* them, and the heap emplace combinators try_emplace / try_emplace_pin.   *)
(*                                                                         *)
(* Rust functions are operators over a machine record                      *)
(*     m = [live, store, log, heap, ub, debug]                             *)
(* live : bag of addresses holding a live (constructed, not yet            *)
(*        destructed) value; a zero-sized type may have several live       *)
(*        values at one address.                                           *)
(* log  : the observable events in program order: initializer calls,       *)
(*        destructor runs, allocate and deallocate calls.                  *)
(* heap : blocks currently allocated by the global allocator.              *)
(* ub   : set once the program has done something undefined.               *)
(* store: the value last written at each address.                          *)
(* debug: whether the build has debug assertions (cfg(debug_assertions)).  *)
(* Each operator returns the machine after the call together with the      *)
(* call's result.  The actions apply the operators to the state.           *)
(***************************************************************************)
EXTENDS Integers, Sequences, FiniteSets, Bags, TLC

VARIABLES
    T,       \* the element type: [size, align]
    phase,   \* what the caller holds: "uninit", "writer", "handle", "idle", "box", "done"
    buf,     \* the caller's Uninit<[T]>: [ptr, len]
    writer,  \* the live writer, or NoWriter
    handle,  \* the Init<[T]> a finished writer returned, or NoHandle
    mem,     \* the machine record m
    op,      \* the last operation and its inputs
    ret,     \* what the last operation returned
    box      \* the Box<T> try_emplace returned, or NoBox

vars == <<T, phase, buf, writer, handle, mem, op, ret, box>>

----------------------------------------------------------------------------
(* Bounds of the model *)

\* longest slice the caller hands out
MaxLen == 5
\* largest size_of::<T>() of an element type
MaxTSize == 2
\* events after which the caller starts no further writer operation
MaxLog == 5
\* width of usize in bits (scaled down)
UsizeBits == 6
\* longest slice handed to a library initializer
MaxItems == 3
\* calls the caller makes on one SelfRef
MaxCalls == 5

UsizeMax == 2 ^ UsizeBits - 1
IsizeMax == 2 ^ (UsizeBits - 1) - 1

\* element types: size is a multiple of the alignment
Types == { [size |-> s, align |-> a] : s \in 0 .. MaxTSize, a \in {1, 2} }
ElemTypes == { t \in Types : t.size % t.align = 0 }

\* errors an initializer can return
Errors == {"e1", "e2"}

\* address of a caller supplied buffer
BufAddrs == {16}
\* addresses the global allocator hands out
HeapAddrs == {16, 32}

WriterKinds == {"SliceWriter", "PinSliceWriter", "Writer"}

----------------------------------------------------------------------------
(* Values *)

NoWriter == [kind |-> "none"]
NoHandle == [ptr |-> 0, len |-> 0, valid |-> FALSE]
NoBox == [valid |-> FALSE]
NoRet == [tag |-> "None"]
ResOk == [tag |-> "Ok"]
ResErr(e) == [tag |-> "Err", err |-> e]
ResPanic == [tag |-> "Panic"]

\* an element initializer's behaviour: succeed, or fail with an error
InitVal(v) == [tag |-> "Ok", val |-> v]
InitOk == InitVal(0)
InitErr(e) == [tag |-> "Err", err |-> e]
\* a broken initializer: builds its value at address at, not in the slot it
\* was given, and returns the Init over at
InitRogue(at) == [tag |-> "Rogue", val |-> 0, at |-> at]
\* a closure initializer that panics
InitPanic == [tag |-> "Panic"]
Outcomes == {InitOk} \cup { InitErr(e) : e \in Errors }

EmptyMem ==
    [live |-> EmptyBag, store |-> [a \in {} |-> 0], log |-> <<>>, heap |-> {},
     ub |-> FALSE, debug |-> TRUE]

\* ptr.add(k) on a *mut T
PtrAdd(p, k) == p + k * T.size

\* usize::wrapping_sub
wrapping_sub(a, b) == (a - b) % (2 ^ UsizeBits)

Log(m, e) == [m EXCEPT !.log = Append(@, e)]

\* ptr.write(value): the bits at a are overwritten, nothing is destructed
PtrWrite(a, v, m) ==
    [m EXCEPT !.live = @ (+) SetToBag({a}),
              !.store = [x \in DOMAIN @ \cup {a} |-> IF x = a THEN v ELSE @[x]]]

----------------------------------------------------------------------------
(* Destructors *)

\* the destructor of the element at address a, element idx of the place dropped
DropElem(a, idx, m) ==
    LET logged == Log(m, [ev |-> "drop", addr |-> a, idx |-> idx])
    IN  IF CopiesIn(a, m.live) = 0
        THEN [logged EXCEPT !.ub = TRUE]
        ELSE [logged EXCEPT !.live = @ (-) SetToBag({a})]

RECURSIVE DropFrom(_, _, _, _)
DropFrom(ptr, i, len, m) ==
    IF i >= len THEN m
    ELSE DropFrom(ptr, i + 1, len, DropElem(PtrAdd(ptr, i), i, m))

\* ptr::drop_in_place on a *mut [T] of len elements: element 0 first
drop_in_place(ptr, len, m) == DropFrom(ptr, 0, len, m)

----------------------------------------------------------------------------
(* Initializers *)

\* an element initializer (a closure, InitFn, TryInitFn) on Uninit::from_raw(ptr):
\* on Ok the slot holds a value and the returned Init is over the same address
ElemTryInit(init, ptr, m) ==
    LET called == Log(m, [ev |-> "call", addr |-> ptr, ok |-> init.tag \in {"Ok", "Rogue"}])
    IN  IF init.tag = "Ok"
        THEN [res |-> ResOk, handle |-> ptr, m |-> PtrWrite(ptr, init.val, called)]
        ELSE IF init.tag = "Rogue"
        THEN [res |-> ResOk, handle |-> init.at, m |-> PtrWrite(init.at, init.val, called)]
        ELSE IF init.tag = "Panic"
        THEN \* the closure unwinds: nothing is written, nothing returned
             [res |-> ResPanic, handle |-> ptr, m |-> called]
        ELSE [res |-> ResErr(init.err), handle |-> ptr, m |-> called]

\* a faulty try_init_in_place: the returned address is never compared
try_init_in_place_unasserted(ptr, r) ==
    IF r.res.tag = "Ok"
    THEN [res |-> ResOk, m |-> r.m]
    ELSE [res |-> r.res, m |-> r.m]

\* raw::try_init_in_place(init, ptr), r being what init.try_init returned on
\* Uninit::from_raw(ptr): the Init handle is turned into_raw, so its
\* destructor does not run
try_init_in_place(ptr, r) ==
    IF r.res.tag = "Ok"
    THEN IF r.m.debug /\ r.handle # ptr
         THEN [res |-> ResPanic, m |-> r.m]
         ELSE [res |-> ResOk, m |-> r.m]
    ELSE [res |-> r.res, m |-> r.m]

\* a faulty try_pin_init_in_place: the Init it got goes out of scope instead
\* of being turned into_raw, so the value just built is destructed
try_pin_init_in_place_drops(ptr, r) ==
    IF r.res.tag = "Ok"
    THEN [res |-> ResOk, m |-> DropElem(r.m.log[Len(r.m.log)].addr, 0, r.m)]
    ELSE [res |-> r.res, m |-> r.m]

\* raw::try_pin_init_in_place(init, ptr), r being what init.try_pin_init
\* returned on the PinnedUninit over ptr
try_pin_init_in_place(ptr, r) ==
    IF r.res.tag = "Ok"
    THEN IF r.m.debug /\ r.handle # ptr
         THEN [res |-> ResPanic, m |-> r.m]
         ELSE [res |-> ResOk, m |-> r.m]
    ELSE [res |-> r.res, m |-> r.m]

----------------------------------------------------------------------------
(* SliceWriter / PinSliceWriter / Writer: the three are the same code but   *)
(* for the in-place function they call; the kind tag selects it.            *)

\* a faulty new: the cursor starts one element into the slice
SliceWriter_new_off(kind, uninit) ==
    [kind |-> kind, uninit |-> uninit, current |-> PtrAdd(uninit.ptr, 1),
     remaining |-> uninit.len]

\* a faulty new: a writer over an empty slice still expects one element
SliceWriter_new_one(kind, uninit) ==
    [kind |-> kind, uninit |-> uninit, current |-> uninit.ptr,
     remaining |-> IF uninit.len = 0 THEN 1 ELSE uninit.len]

SliceWriter_new(kind, uninit) ==
    [kind |-> kind, uninit |-> uninit, current |-> uninit.ptr,
     remaining |-> uninit.len]

is_finished(w) == w.remaining = 0

\* a faulty Drop: tears down the whole slice, not the initialized prefix
SliceWriter_drop_all(w, m) == drop_in_place(w.uninit.ptr, w.uninit.len, m)

\* Drop for SliceWriter / PinSliceWriter / Writer
SliceWriter_drop(w, m) ==
    LET len == wrapping_sub(w.uninit.len, w.remaining)
    IN  drop_in_place(w.uninit.ptr, len, m)

\* a faulty try_init_unchecked: moves on whatever the initializer returned
try_init_unchecked_advances(w, init, m) ==
    LET called == ElemTryInit(init, w.current, m)
        output == IF w.kind = "PinSliceWriter"
                  THEN try_pin_init_in_place(w.current, called)
                  ELSE try_init_in_place(w.current, called)
    IN  [res |-> output.res, m |-> output.m,
         w |-> [w EXCEPT !.current = PtrAdd(@, 1), !.remaining = @ - 1]]

\* a faulty end of try_init_unchecked: the count goes down but the cursor
\* stays on the slot just initialized
Advanced_in_place(w, output) ==
    IF output.res.tag = "Ok"
    THEN [res |-> output.res, m |-> output.m,
          w |-> [w EXCEPT !.remaining = @ - 1]]
    ELSE [res |-> output.res, m |-> output.m, w |-> w]

\* the end of try_init_unchecked, output being what try_init_in_place or
\* try_pin_init_in_place returned: the ? operator, then the writer moves on
Advanced(w, output) ==
    IF output.res.tag = "Ok"
    THEN [res |-> output.res, m |-> output.m,
          w |-> [w EXCEPT !.current = PtrAdd(@, 1), !.remaining = @ - 1]]
    ELSE [res |-> output.res, m |-> output.m, w |-> w]

try_init_unchecked(w, init, m) ==
    Advanced(w, IF w.kind = "PinSliceWriter"
                THEN try_pin_init_in_place(w.current,
                                           ElemTryInit(init, w.current, m))
                ELSE try_init_in_place(w.current,
                                       ElemTryInit(init, w.current, m)))

\* try_write (Writer::try_init): assert!(!self.is_finished()) comes first
try_write(w, init, m) ==
    IF is_finished(w)
    THEN [res |-> ResPanic, m |-> m, w |-> w]
    ELSE try_init_unchecked(w, init, m)

\* a faulty init_unchecked: counts the element but leaves the cursor behind
init_unchecked_no_advance(w, m) ==
    LET called == ElemTryInit(InitOk, w.current, m)
        r == IF w.kind = "PinSliceWriter"
             THEN try_pin_init_in_place(w.current, called)
             ELSE try_init_in_place(w.current, called)
    IN  [res |-> ResOk, m |-> r.m, w |-> [w EXCEPT !.remaining = @ - 1]]

\* init_unchecked: the initializer is infallible
init_unchecked(w, m) ==
    LET called == ElemTryInit(InitOk, w.current, m)
        r == IF w.kind = "PinSliceWriter"
             THEN try_pin_init_in_place(w.current, called)
             ELSE try_init_in_place(w.current, called)
    IN  [res |-> ResOk, m |-> r.m,
         w |-> [w EXCEPT !.current = PtrAdd(@, 1), !.remaining = @ - 1]]

\* a faulty write: the assert left out
write_unasserted(w, m) == init_unchecked(w, m)

\* write / init: assert!(!self.is_finished()) comes first
write(w, m) ==
    IF is_finished(w)
    THEN [res |-> ResPanic, m |-> m, w |-> w]
    ELSE init_unchecked(w, m)

\* a faulty finish_unchecked: the handle built from the cursor, which stands
\* at the end of the slice, not from the Uninit
finish_unchecked_at_cursor(w, m) ==
    [res |-> ResOk, m |-> m,
     handle |-> [ptr |-> w.current, len |-> w.uninit.len, valid |-> TRUE]]

\* a faulty finish_unchecked: no mem::take / mem::forget, the writer's
\* destructor runs on the way out
finish_unchecked_drops(w, m) ==
    [res |-> ResOk, m |-> SliceWriter_drop(w, m),
     handle |-> [ptr |-> w.uninit.ptr, len |-> w.uninit.len, valid |-> TRUE]]

\* mem::take(&mut self.uninit), mem::forget(self), uninit.assume_init():
\* the writer's destructor does not run
finish_unchecked(w, m) ==
    [res |-> ResOk, m |-> m,
     handle |-> [ptr |-> w.uninit.ptr, len |-> w.uninit.len, valid |-> TRUE]]

\* a faulty finish: the assert left out
finish_unasserted(w, m) == finish_unchecked(w, m)

\* a faulty finish: the writer is forgotten before the assert, so a failed
\* assert unwinds without the writer's destructor
finish_forgets(w, m) ==
    IF ~is_finished(w)
    THEN [res |-> ResPanic, m |-> m, handle |-> NoHandle]
    ELSE finish_unchecked(w, m)

\* finish: a failed assert unwinds out of finish, which owns self
finish(w, m) ==
    IF ~is_finished(w)
    THEN [res |-> ResPanic, m |-> SliceWriter_drop(w, m), handle |-> NoHandle]
    ELSE finish_unchecked(w, m)

\* a faulty try_for_each: forgets self on the way out with an error
RECURSIVE try_for_each_leaks(_, _, _)
try_for_each_leaks(w, f, m) ==
    IF ~is_finished(w)
    THEN LET r == try_write(w, Head(f), m)
         IN  IF r.res.tag = "Ok"
             THEN try_for_each_leaks(r.w, Tail(f), r.m)
             ELSE [res |-> r.res, m |-> r.m, handle |-> NoHandle]
    ELSE finish(w, m)

\* try_for_each: f lists the outcome of each successive call of the closure;
\* the ? operator returns the error and drops self
RECURSIVE try_for_each(_, _, _)
try_for_each(w, f, m) ==
    IF ~is_finished(w)
    THEN LET r == try_write(w, Head(f), m)
         IN  IF r.res.tag = "Ok"
             THEN try_for_each(r.w, Tail(f), r.m)
             ELSE [res |-> r.res, m |-> SliceWriter_drop(r.w, r.m),
                   handle |-> NoHandle]
    ELSE finish(w, m)

RECURSIVE for_each(_, _)
for_each(w, m) ==
    IF ~is_finished(w)
    THEN LET r == write(w, m) IN for_each(r.w, r.m)
    ELSE finish(w, m)

\* SliceInit::try_init: every clone of the initializer is one entry of f
SliceInit_try_init(f, uninit, m) ==
    try_for_each(SliceWriter_new("SliceWriter", uninit), f, m)

\* SliceInit::try_pin_init
SliceInit_try_pin_init(f, uninit, m) ==
    try_for_each(SliceWriter_new("PinSliceWriter", uninit), f, m)

\* a slice initializer: SliceInit over clones behaving as f
SliceInit(f) == [tag |-> "SliceInit", f |-> f]

\* a faulty write: *ptr = value, which destructs what the slot held before
Uninit_write_assigns(p, v, m) ==
    [res |-> ResOk, handle |-> p,
     m |-> PtrWrite(p.ptr, v,
               DropElem(p.ptr, 0, Log(m, [ev |-> "write", addr |-> p.ptr, val |-> v])))]

\* Uninit::write(value): ptr.write(value), then assume_init, which builds the
\* Init from the Uninit's own pointer
Uninit_write(p, v, m) ==
    [res |-> ResOk, handle |-> p,
     m |-> PtrWrite(p.ptr, v, Log(m, [ev |-> "write", addr |-> p.ptr, val |-> v]))]

\* the values of src from the i-th on written to consecutive elements
RECURSIVE WriteFrom(_, _, _, _)
WriteFrom(ptr, i, src, m) ==
    IF i > Len(src) THEN m
    ELSE WriteFrom(ptr, i + 1, src,
             PtrWrite(PtrAdd(ptr, i - 1), src[i],
                 Log(m, [ev |-> "write", addr |-> PtrAdd(ptr, i - 1), val |-> src[i]])))

\* a faulty write_array: the assert left out
Uninit_write_array_unasserted(p, array, m) ==
    [res |-> ResOk, handle |-> p, m |-> WriteFrom(p.ptr, 1, array, m)]

\* Uninit::write_array(array): assert!(self.len() == N), the array written
\* through the slice's pointer, assume_init. A failed assert unwinds before
\* the write; the array it was given is the caller's value, not in the slice
Uninit_write_array(p, array, m) ==
    IF p.len # Len(array)
    THEN [res |-> ResPanic, handle |-> p, m |-> m]
    ELSE [res |-> ResOk, handle |-> p, m |-> WriteFrom(p.ptr, 1, array, m)]

\* Uninit::write_slice(slice), T: Copy: assert!(self.len() == slice.len()),
\* copy_from_nonoverlapping of self.len() elements, assume_init
Uninit_write_slice(p, slice, m) ==
    IF p.len # Len(slice)
    THEN [res |-> ResPanic, handle |-> p, m |-> m]
    ELSE [res |-> ResOk, handle |-> p,
          m |-> WriteFrom(p.ptr, 1, SubSeq(slice, 1, p.len), m)]

\* the initializers of the library, wrapped around closures:
\* a value of T used as its own initializer
Value(v) == [tag |-> "Value", val |-> v]
\* InitFn::new(f), TryInitFn::new(f) (PinInitFn, TryPinInitFn when pinned)
InitFn(f) == [tag |-> "InitFn", f |-> f]
TryInitFn(f) == [tag |-> "TryInitFn", f |-> f]
\* init.to_pin_init(), init.to_init()
AsPinInit(init) == [tag |-> "AsPinInit", init |-> init]
AsInit(init) == [tag |-> "AsInit", init |-> init]
\* SliceIterInit::new(iter), items being the initializers iter yields
SliceIterInit(items) == [tag |-> "SliceIterInit", items |-> items]
\* ArrayInit::new(init)
ArrayInit(init) == [tag |-> "ArrayInit", init |-> init]

SliceIterInitError_NotEnoughItems == [kind |-> "NotEnoughItems"]
SliceIterInitError_Init(e) == [kind |-> "Init", e |-> e]

\* a faulty closure: the iterator's last item is taken for its end
SliceIterInit_closure_early(items, n) ==
    [j \in 1 .. n |->
        IF j >= Len(items) THEN InitErr(SliceIterInitError_NotEnoughItems)
        ELSE IF items[j].tag = "Err"
        THEN InitErr(SliceIterInitError_Init(items[j].err))
        ELSE items[j]]

\* a faulty closure: it takes two items from the iterator for every slot and
\* uses the second
SliceIterInit_closure_skips(items, n) ==
    [j \in 1 .. n |->
        IF 2 * j > Len(items) THEN InitErr(SliceIterInitError_NotEnoughItems)
        ELSE IF items[2 * j].tag = "Err"
        THEN InitErr(SliceIterInitError_Init(items[2 * j].err))
        ELSE items[2 * j]]

\* the closure SliceIterInit hands to try_for_each, as the outcomes of its n
\* calls: self.0.next().ok_or(NotEnoughItems)?, then try_init(..).map_err(Init)
SliceIterInit_closure(items, n) ==
    [j \in 1 .. n |->
        IF j > Len(items) THEN InitErr(SliceIterInitError_NotEnoughItems)
        ELSE IF items[j].tag = "Err"
        THEN InitErr(SliceIterInitError_Init(items[j].err))
        ELSE items[j]]

\* SliceIterInit::try_init / try_pin_init
SliceIterInit_try_init(pin, items, uninit, m) ==
    try_for_each(SliceWriter_new(IF pin THEN "PinSliceWriter" ELSE "SliceWriter", uninit),
                 SliceIterInit_closure(items, uninit.len), m)

\* struct SelfRef { first: i32, second: i32, current: *mut i32 }, in units of
\* one i32: the offsets of its fields, its size and its alignment
FirstOffset == 0
SecondOffset == 1
CurrentOffset == 2
SelfRefLayout == [size |-> 4, align |-> 2]

\* a field of a struct set by ptr.write of the whole struct
StoreField(a, v, m) ==
    [m EXCEPT !.store = [x \in DOMAIN @ \cup {a} |-> IF x = a THEN v ELSE @[x]]]

\* SelfRef::new_in(value, uninit): current is the address of the field first
\* of the place behind uninit; then uninit.write(Self { .. })
SelfRef_new_in(value, p, m) ==
    LET current == p.ptr + FirstOffset
        called == Log(m, [ev |-> "call", addr |-> p.ptr, ok |-> TRUE])
        first == PtrWrite(p.ptr + FirstOffset, value, called)
        second == StoreField(p.ptr + SecondOffset, 0, first)
    IN  [res |-> ResOk, handle |-> p,
         m |-> StoreField(p.ptr + CurrentOffset, current, second)]

\* SelfRef::init(value): PinInitFn::new(move |uninit| Self::new_in(value, uninit))
SelfRef_init(value) == [tag |-> "SelfRef", val |-> value]

\* a faulty AsInit::try_init: the error arm left unwritten
AsInit_try_init_todo(r) ==
    IF r.res.tag = "Ok" THEN [r EXCEPT !.res = ResOk]
    ELSE [r EXCEPT !.res = ResPanic]

\* AsInit::try_init, r being what the wrapped try_pin_init returned:
\* Ok(init) => Ok(PinnedInit::into_inner(init)), Err(err) => Err(err)
AsInit_try_init(r) ==
    IF r.res.tag = "Ok" THEN [r EXCEPT !.res = ResOk]
    ELSE IF r.res.tag = "Err" THEN [r EXCEPT !.res = ResErr(r.res.err)]
    ELSE r

\* the Result an initializer returns, r being what the closure behind it
\* returned: the Init<T> is over the closure's address, with the length of p
Init_of(p, r) ==
    [res |-> r.res, m |-> r.m, handle |-> [ptr |-> r.handle, len |-> p.len]]

\* the Result a slice initializer returns, r being what the writer returned:
\* the Init<[T]> without the writer's bookkeeping
Init_slice(r) ==
    [res |-> r.res, m |-> r.m,
     handle |-> [ptr |-> r.handle.ptr, len |-> r.handle.len]]

\* ArrayInit::try_init and try_pin_init, r being what the wrapped slice
\* initializer returned: init.try_into().unwrap_unchecked() is undefined
\* unless the slice handle has the array's length
ArrayInit_try_init(p, r) ==
    IF r.res.tag = "Ok" /\ r.handle.len # p.len
    THEN [r EXCEPT !.m.ub = TRUE]
    ELSE r

\* AsPinInit::try_pin_init, r being what the wrapped try_init returned:
\* Ok(init) => Ok(init.pin()), Err(_) => todo!()
AsPinInit_try_pin_init(r) ==
    IF r.res.tag = "Err" THEN [r EXCEPT !.res = ResPanic] ELSE r

\* the method a wrapper calls on the initializer it wraps (TRUE: try_pin_init):
\* ArrayInit its own role, AsPinInit try_init, AsInit try_pin_init
Wrapper_role(pin, tag) ==
    IF tag = "ArrayInit" THEN pin ELSE tag = "AsInit"

\* what a wrapper returns, r being what the wrapped initializer returned
Wrapper_try(pin, tag, p, r) ==
    IF tag = "ArrayInit" THEN ArrayInit_try_init(p, r)
    ELSE IF tag = "AsPinInit"
    THEN IF pin THEN AsPinInit_try_pin_init(r) ELSE r
    ELSE IF pin THEN r ELSE AsInit_try_init(r)

\* init.try_init(p) (pin FALSE) or init.try_pin_init(p) (pin TRUE) of an
\* initializer of the library: result, returned handle as [ptr, len], machine
RECURSIVE Initializer_try(_, _, _, _)
Initializer_try(pin, init, p, m) ==
    IF init.tag \in {"Ok", "Err", "Rogue", "Panic"}
    THEN Init_of(p, ElemTryInit(init, p.ptr, m))
    ELSE IF init.tag \in {"InitFn", "TryInitFn"}
    THEN Init_of(p, ElemTryInit(init.f, p.ptr, m))
    ELSE IF init.tag = "Value"
    THEN Uninit_write(p, init.val, m)
    ELSE IF init.tag = "SliceInit"
    THEN Init_slice(IF pin THEN SliceInit_try_pin_init(init.f, p, m)
                    ELSE SliceInit_try_init(init.f, p, m))
    ELSE IF init.tag = "SliceIterInit"
    THEN Init_slice(SliceIterInit_try_init(pin, init.items, p, m))
    ELSE IF init.tag = "SelfRef"
    THEN SelfRef_new_in(init.val, p, m)
    ELSE \* ArrayInit, AsPinInit, AsInit: the wrapped initializer runs first,
         \* in the role the wrapper calls it in
         Wrapper_try(pin, init.tag, p,
                     Initializer_try(Wrapper_role(pin, init.tag), init.init, p, m))

\* I::try_init of the initializer handed to try_emplace, on the Uninit over p
TryInit(init, p, m) ==
    Initializer_try(FALSE, init, p, Log(m, [ev |-> "init", ptr |-> p]))

\* I::try_pin_init of the initializer handed to try_emplace_pin
TryPinInit(init, p, m) ==
    Initializer_try(TRUE, init, p, Log(m, [ev |-> "init", ptr |-> p]))

\* Drop for Init<[T]>
Init_drop(h, m) == drop_in_place(h.ptr, h.len, m)

----------------------------------------------------------------------------
(* The caller of the writers *)

\* the outcomes of k successive calls of a closure
Closures(k) == [1 .. k -> Outcomes]
\* the closure that writes 0, 1, 2, ... on its successive calls
Counting(k) == [j \in 1 .. k |-> InitVal(j - 1)]

WInit ==
    /\ T \in ElemTypes
    /\ phase = "uninit"
    /\ buf \in { [ptr |-> b, len |-> n] : b \in BufAddrs, n \in 0 .. MaxLen }
    /\ writer = NoWriter
    /\ handle = NoHandle
    /\ mem = EmptyMem
    /\ op = [name |-> "none"]
    /\ ret = NoRet
    /\ box = NoBox

W_new(kind) ==
    /\ phase = "uninit"
    /\ writer' = SliceWriter_new(kind, buf)
    /\ phase' = "writer"
    /\ op' = [name |-> "new"]
    /\ ret' = NoRet
    /\ UNCHANGED <<T, buf, handle, mem, box>>

W_try_write(init) ==
    /\ phase = "writer"
    /\ Len(mem.log) < MaxLog
    /\ LET r == try_write(writer, init, mem)
       IN  /\ writer' = r.w
           /\ mem' = r.m
           /\ ret' = r.res
    /\ op' = [name |-> "try_write", init |-> init]
    /\ UNCHANGED <<T, phase, buf, handle, box>>

W_write ==
    /\ phase = "writer"
    /\ Len(mem.log) < MaxLog
    /\ LET r == write(writer, mem)
       IN  /\ writer' = r.w
           /\ mem' = r.m
           /\ ret' = r.res
    /\ op' = [name |-> "write"]
    /\ UNCHANGED <<T, phase, buf, handle, box>>

W_finish ==
    /\ phase = "writer"
    /\ LET r == finish(writer, mem)
       IN  /\ mem' = r.m
           /\ ret' = r.res
           /\ handle' = r.handle
           /\ phase' = IF r.res.tag = "Ok" THEN "handle" ELSE "done"
    /\ writer' = NoWriter
    /\ op' = [name |-> "finish", w |-> writer]
    /\ UNCHANGED <<T, buf, box>>

W_try_for_each(f) ==
    /\ phase = "writer"
    /\ writer.kind # "Writer"
    /\ Len(f) = writer.remaining
    /\ Len(mem.log) < MaxLog
    /\ LET r == try_for_each(writer, f, mem)
       IN  /\ mem' = r.m
           /\ ret' = r.res
           /\ handle' = r.handle
           /\ phase' = IF r.res.tag = "Ok" THEN "handle" ELSE "done"
    /\ writer' = NoWriter
    /\ op' = [name |-> "try_for_each", w |-> writer, f |-> f, at |-> Len(mem.log)]
    /\ UNCHANGED <<T, buf, box>>

W_for_each ==
    /\ phase = "writer"
    /\ writer.kind # "Writer"
    /\ Len(mem.log) < MaxLog
    /\ LET r == for_each(writer, mem)
       IN  /\ mem' = r.m
           /\ ret' = r.res
           /\ handle' = r.handle
           /\ phase' = IF r.res.tag = "Ok" THEN "handle" ELSE "done"
    /\ writer' = NoWriter
    /\ op' = [name |-> "for_each", w |-> writer, at |-> Len(mem.log)]
    /\ UNCHANGED <<T, buf, box>>

\* the caller discards the writer
W_drop ==
    /\ phase = "writer"
    /\ mem' = SliceWriter_drop(writer, mem)
    /\ writer' = NoWriter
    /\ phase' = "done"
    /\ op' = [name |-> "drop", w |-> writer]
    /\ ret' = NoRet
    /\ UNCHANGED <<T, buf, handle, box>>

\* SliceInit(init).try_init(buf) / .try_pin_init(buf)
S_try_init(pin, f) ==
    /\ phase = "uninit"
    /\ Len(f) = buf.len
    /\ LET r == IF pin THEN SliceInit_try_pin_init(f, buf, mem)
                ELSE SliceInit_try_init(f, buf, mem)
       IN  /\ mem' = r.m
           /\ ret' = r.res
           /\ handle' = r.handle
           /\ phase' = IF r.res.tag = "Ok" THEN "handle" ELSE "done"
    /\ op' = [name |-> "SliceInit",
              w |-> SliceWriter_new(IF pin THEN "PinSliceWriter" ELSE "SliceWriter", buf),
              f |-> f, at |-> Len(mem.log)]
    /\ UNCHANGED <<T, buf, writer, box>>

\* the caller drops the Init<[T]> it got
H_drop ==
    /\ phase = "handle"
    /\ mem' = Init_drop(handle, mem)
    /\ handle' = NoHandle
    /\ phase' = "done"
    /\ op' = [name |-> "drop_handle", h |-> handle, from |-> op.name]
    /\ ret' = NoRet
    /\ UNCHANGED <<T, buf, writer, box>>

WNext ==
    \/ \E kind \in WriterKinds : W_new(kind)
    \/ \E init \in Outcomes : W_try_write(init)
    \/ W_write
    \/ W_finish
    \/ \E k \in 0 .. MaxLen : \E f \in Closures(k) \cup {Counting(k)} : W_try_for_each(f)
    \/ W_for_each
    \/ W_drop
    \/ \E pin \in BOOLEAN, k \in 0 .. MaxLen :
           \E f \in Closures(k) \cup {Counting(k)} : S_try_init(pin, f)
    \/ H_drop

WriterSpec == WInit /\ [][WNext]_vars

----------------------------------------------------------------------------
(* The caller of the handles and of the library's initializers *)

\* a faulty into_raw: self is not forgotten and drops on the way out
Init_into_raw_drops(h, m) ==
    [ptr |-> [ptr |-> h.ptr, len |-> h.len], m |-> Init_drop(h, m)]

\* Init::into_raw: the pointer, and mem::forget(self)
Init_into_raw(h, m) == [ptr |-> [ptr |-> h.ptr, len |-> h.len], m |-> m]

\* a faulty try_from: the slice handle goes out of scope in the Ok arm,
\* no into_raw forgetting it
PinnedInit_try_from_drops(value, N, m) ==
    IF value.len = N
    THEN [res |-> ResOk, m |-> Init_drop(value, m),
          handle |-> [value EXCEPT !.len = N]]
    ELSE [res |-> ResErr(value), m |-> m, handle |-> NoHandle]

\* TryFrom<PinnedInit<[T]>> for PinnedInit<[T; N]>: the pointer of
\* into_inner_unchecked(value).into_raw() cast to the array, or Err(value)
PinnedInit_try_from(value, N, m) ==
    IF value.len = N
    THEN [res |-> ResOk, m |-> Init_into_raw(value, m).m,
          handle |-> [ptr |-> Init_into_raw(value, m).ptr.ptr, len |-> N,
                      valid |-> TRUE]]
    ELSE [res |-> ResErr(value), m |-> m, handle |-> NoHandle]

\* what the caller holds after try_from returned r: the array handle, or the
\* slice handle that came back as the error
Converted(r) ==
    /\ mem' = r.m
    /\ ret' = IF r.res.tag = "Ok" THEN ResOk ELSE ResErr("PinnedInit")
    /\ handle' = IF r.res.tag = "Ok" THEN r.handle ELSE r.res.err

\* an Uninit going out of scope: Uninit has no Drop
Uninit_drop(p, m) == m

\* values written
Vals == {0, 7}
\* where a broken initializer builds its value
RogueAddrs == {48}

\* closures over one T: write a value, or fail
ElemClosures == { InitVal(v) : v \in Vals } \cup { InitErr(e) : e \in Errors }
\* broken closures
RogueClosures == { InitRogue(a) : a \in RogueAddrs }

\* the library's initializers of one T around the closures cs
Wrapped(cs) ==
    LET base == cs \cup { InitFn(f) : f \in { c \in cs : c.tag # "Err" } }
                   \cup { TryInitFn(f) : f \in cs }
    IN  base \cup { AsPinInit(i) : i \in base } \cup { AsInit(i) : i \in base }
ElemInits == { Value(v) : v \in Vals } \cup { AsPinInit(Value(v)) : v \in Vals }
                 \cup Wrapped(ElemClosures)

\* the library's initializers of a [T] of n elements, and of a [T; n]
SliceInits(n) ==
    LET base == { SliceInit(f) : f \in Closures(n) }
                    \cup UNION { { SliceIterInit(items) : items \in Closures(k) } :
                                 k \in 0 .. n + 1 }
    IN  base \cup { AsPinInit(i) : i \in base } \cup { ArrayInit(i) : i \in base }

\* bits left at address a by whatever used the memory before
StaleBits(a) == [x \in {a} |-> 1]

HInit ==
    /\ T \in ElemTypes
    /\ phase = "uninit"
    /\ buf \in { [ptr |-> b, len |-> n] : b \in BufAddrs, n \in 0 .. MaxItems }
    /\ writer = NoWriter
    /\ handle = NoHandle
    /\ mem \in { [EmptyMem EXCEPT !.debug = d, !.store = st] :
                     d \in BOOLEAN, st \in {EmptyMem.store, StaleBits(buf.ptr)} }
    /\ op = [name |-> "none"]
    /\ ret = NoRet
    /\ box = NoBox

\* what the caller holds after an initializer returned r
Initialized(r) ==
    /\ mem' = r.m
    /\ ret' = r.res
    /\ handle' = IF r.res.tag = "Ok"
                 THEN [ptr |-> r.handle.ptr, len |-> r.handle.len, valid |-> TRUE]
                 ELSE NoHandle
    /\ phase' = IF r.res.tag = "Ok" THEN "handle" ELSE "done"

\* uninit.write(v) on an Uninit<T>
U_write ==
    /\ phase = "uninit"
    /\ buf.len = 1
    /\ \E v \in Vals :
           /\ Initialized(Uninit_write(buf, v, mem))
           /\ op' = [name |-> "write", val |-> v, old |-> mem.store]
    /\ UNCHANGED <<T, buf, writer, box>>

\* the arrays and slices a caller copies from
Sources == UNION { [1 .. k -> Vals] : k \in 0 .. MaxItems }

\* uninit.write_array(src) on an Uninit<[T]>
U_write_array ==
    /\ phase = "uninit"
    /\ \E src \in Sources :
           /\ Initialized(Uninit_write_array(buf, src, mem))
           /\ op' = [name |-> "write_array", src |-> src, old |-> mem.store]
    /\ UNCHANGED <<T, buf, writer, box>>

\* uninit.write_slice(&src) on an Uninit<[T]>
U_write_slice ==
    /\ phase = "uninit"
    /\ \E src \in Sources :
           /\ Initialized(Uninit_write_slice(buf, src, mem))
           /\ op' = [name |-> "write_slice", src |-> src, old |-> mem.store]
    /\ UNCHANGED <<T, buf, writer, box>>

\* the Uninit is dropped unused
U_drop ==
    /\ phase = "uninit"
    /\ mem' = Uninit_drop(buf, mem)
    /\ phase' = "done"
    /\ op' = [name |-> "drop_uninit"]
    /\ ret' = NoRet
    /\ UNCHANGED <<T, buf, writer, handle, box>>

\* init.try_init(uninit) / init.try_pin_init(uninit) of a library initializer
\* of T (on a one element buffer) or of [T]
U_try_init ==
    /\ phase = "uninit"
    /\ \E pin \in BOOLEAN :
       \E init \in SliceInits(buf.len) \cup (IF buf.len = 1 THEN ElemInits ELSE {}) :
           /\ Initialized(Initializer_try(pin, init, buf, mem))
           /\ op' = [name |-> "try_init", pin |-> pin, init |-> init]
    /\ UNCHANGED <<T, buf, writer, box>>

\* raw::try_init_in_place(init, ptr) / raw::try_pin_init_in_place(init, ptr),
\* the initializer possibly a broken one
R_in_place ==
    /\ phase = "uninit"
    /\ buf.len = 1
    /\ \E pin \in BOOLEAN :
       \E init \in ElemInits \cup Wrapped(RogueClosures) :
           LET called == Initializer_try(pin, init, buf, mem)
               r == IF pin THEN try_pin_init_in_place(buf, called)
                    ELSE try_init_in_place(buf, called)
           IN  /\ mem' = r.m
               /\ ret' = r.res
               /\ phase' = IF r.res.tag = "Ok" THEN "raw" ELSE "done"
               /\ op' = [name |-> "in_place", pin |-> pin, init |-> init,
                         given |-> buf, returned |-> called.handle,
                         got |-> called.res, after |-> called.m]
    /\ UNCHANGED <<T, buf, writer, handle, box>>

\* handle.into_raw()
I_into_raw ==
    /\ phase = "handle"
    /\ LET r == Init_into_raw(handle, mem)
       IN  /\ mem' = r.m
           /\ ret' = [tag |-> "Ptr", ptr |-> r.ptr]
    /\ handle' = NoHandle
    /\ phase' = "raw"
    /\ op' = [name |-> "into_raw", h |-> handle, from |-> op.name]
    /\ UNCHANGED <<T, buf, writer, box>>

\* PinnedInit<[T; N]>::try_from(PinnedInit<[T]>), the handle by value
I_try_from ==
    /\ phase = "handle"
    /\ op.name = "try_init"
    /\ op.pin
    /\ op.init.tag \in {"SliceInit", "SliceIterInit"}
    /\ \E N \in 0 .. MaxItems :
           /\ Converted(PinnedInit_try_from(handle, N, mem))
           /\ op' = [name |-> "try_from", h |-> handle, N |-> N, m |-> mem,
                     out |-> PinnedInit_try_from(handle, N, mem).res]
    /\ UNCHANGED <<T, phase, buf, writer, box>>

\* the caller of into_raw goes on, the raw pointer in hand
I_raw_kept ==
    /\ phase = "raw"
    /\ op.name = "into_raw"
    /\ phase' = "done"
    /\ op' = [name |-> "raw_kept", h |-> op.h]
    /\ UNCHANGED <<T, buf, writer, handle, mem, ret, box>>

HNext ==
    \/ U_write
    \/ U_write_array
    \/ U_write_slice
    \/ U_drop
    \/ U_try_init
    \/ R_in_place
    \/ I_into_raw
    \/ I_raw_kept
    \/ I_try_from
    \/ H_drop

HandleSpec == HInit /\ [][HNext]_vars

----------------------------------------------------------------------------
(* What the log shows *)

IsCall(e) == e.ev = "call"
IsDrop(e) == e.ev = "drop"
IsOkCall(e) == e.ev = "call" /\ e.ok
Calls(log) == SelectSeq(log, IsCall)
Drops(log) == SelectSeq(log, IsDrop)
OkCalls(log) == SelectSeq(log, IsOkCall)

\* the events of the last operation, which began with op.at events logged
OpEvents == SubSeq(mem.log, op.at + 1, Len(mem.log))

\* destructor runs of elements 0 .. k-1 of the slice at base, each once
PrefixDrops(base, k) ==
    [i \in 1 .. k |-> [ev |-> "drop", addr |-> PtrAdd(base, i - 1), idx |-> i - 1]]

\* how many of elements 0 .. k-1 of the slice at base lie at address a
PrefixAt(base, k, a) == Cardinality({ i \in 0 .. k - 1 : PtrAdd(base, i) = a })

\* the first call of closure f that fails
FirstErr(f) == CHOOSE i \in DOMAIN f :
    /\ f[i].tag = "Err"
    /\ \A j \in DOMAIN f : j < i => f[j].tag = "Ok"
Fails(f) == \E i \in DOMAIN f : f[i].tag = "Err"

\* the writer was dropped without finish: discarded by the caller, or dropped
\* by the ? of try_for_each on the way out with an error
DroppedUnfinished ==
    \/ op.name = "drop"
    \/ op.name \in {"try_for_each", "SliceInit"} /\ ret.tag = "Err"

----------------------------------------------------------------------------
(* Claims about the writers, checked under WriterSpec *)

\* C1: a writer over n elements that made k successful element
\* initializations and is dropped without finish runs the destructor of each
\* of elements 0 .. k-1 exactly once, and of no element k .. n-1.
C1_PrefixTeardown ==
    DroppedUnfinished =>
        LET k == Len(OkCalls(mem.log))
        IN  /\ Drops(mem.log) = PrefixDrops(op.w.uninit.ptr, k)
            /\ mem.live = EmptyBag
            /\ ~mem.ub

C1_Witness ==
    /\ op.name = "drop"
    /\ op.w.uninit.len = 3
    /\ Len(OkCalls(mem.log)) = 2
    /\ Len(Drops(mem.log)) = 2

\* C2: when the closure of try_for_each / SliceInit fails with e on element k,
\* the operation returns Err(e), no initializer is called for a later element,
\* and exactly elements 0 .. k-1 are destructed.
C2_FailAtK ==
    (op.name \in {"try_for_each", "SliceInit"} /\ Fails(op.f)) =>
        LET i == FirstErr(op.f)
            done == op.w.uninit.len - op.w.remaining
            k == done + i - 1
        IN  /\ ret = ResErr(op.f[i].err)
            /\ handle = NoHandle
            /\ Calls(OpEvents) =
                   [j \in 1 .. i |->
                       [ev |-> "call", addr |-> PtrAdd(op.w.uninit.ptr, done + j - 1),
                        ok |-> j < i]]
            /\ Drops(mem.log) = PrefixDrops(op.w.uninit.ptr, k)
            /\ ~mem.ub

\* a 5-element slice whose 3rd initializer fails: elements 0 and 1 destructed
C2_Witness ==
    /\ op.name = "SliceInit"
    /\ op.w.uninit.len = 5
    /\ Fails(op.f)
    /\ FirstErr(op.f) = 3
    /\ ret.tag = "Err"
    /\ Len(Drops(mem.log)) = 2

\* C9, as a step of the writer's caller
WriteOk ==
    /\ writer'.remaining = writer.remaining - 1
    /\ writer'.current = PtrAdd(writer.current, 1)
    /\ writer'.uninit = writer.uninit
    /\ ret' = ResOk

C9_Step ==
    /\ \A init \in Outcomes :
           (W_try_write(init) /\ ~is_finished(writer)) =>
               IF init.tag = "Ok" THEN WriteOk
               ELSE ret' = ResErr(init.err) /\ writer' = writer
    /\ (W_write /\ ~is_finished(writer)) => WriteOk
    /\ (writer.kind # "none" /\ writer'.kind # "none" /\ writer' # writer) =>
           /\ WriteOk
           /\ W_write \/ W_try_write(InitOk)
    /\ writer'.kind # "none" =>
           (is_finished(writer') <=> writer'.remaining = 0)

\* C9: a successful try_write / write / init takes remaining down by one and
\* the cursor forward by one element; a failed try_write returns its error
\* and leaves both alone; nothing else moves a writer, and is_finished holds
\* exactly when remaining is 0.
C9_Progress == [][C9_Step]_vars

C9_Witness ==
    /\ op.name = "try_write"
    /\ op.init.tag = "Err"
    /\ ret.tag = "Err"
    /\ writer.kind = "PinSliceWriter"
    /\ writer.remaining = 1
    /\ writer.uninit.len = 3

\* C10: while a writer over n elements lives, 0 <= remaining <= n, the cursor
\* is remaining elements before the end, elements [0, n - remaining) hold
\* values and elements [n - remaining, n) hold none.
C10_WriterInvariant ==
    writer.kind # "none" =>
        LET n == writer.uninit.len
            k == n - writer.remaining
        IN  /\ writer.uninit = buf
            /\ 0 <= writer.remaining /\ writer.remaining <= n
            /\ writer.current = PtrAdd(writer.uninit.ptr, k)
            /\ \A i \in 0 .. n - 1 :
                   LET a == PtrAdd(writer.uninit.ptr, i)
                   IN  CopiesIn(a, mem.live) = PrefixAt(writer.uninit.ptr, k, a)
            /\ BagToSet(mem.live) \subseteq
                   { PtrAdd(writer.uninit.ptr, i) : i \in 0 .. k - 1 }

C10_Witness ==
    /\ writer.kind = "SliceWriter"
    /\ writer.uninit.len = 3
    /\ writer.remaining = 1
    /\ T.size = 2
    /\ writer.current = writer.uninit.ptr + 4

\* C11: finish on a writer that is not finished (remaining > 0) is a failed
\* assertion: it panics and returns no handle over the slice.
C11_FinishUnfinished ==
    (op.name = "finish" /\ ~is_finished(op.w)) =>
        /\ ret = ResPanic
        /\ handle = NoHandle
        /\ phase = "done"

C11_Witness ==
    /\ op.name = "finish"
    /\ op.w.kind = "PinSliceWriter"
    /\ op.w.uninit.len = 3
    /\ op.w.remaining = 1
    /\ ret = ResPanic

\* C12: finish on a finished writer over n elements returns one handle over
\* the base address and length of the slice the writer was made from and runs
\* no destructor; dropping the handle destructs each of the n elements once.
C12_FinishHandsOver ==
    /\ (op.name = "finish" /\ is_finished(op.w)) =>
           /\ ret = ResOk
           /\ handle = [ptr |-> buf.ptr, len |-> buf.len, valid |-> TRUE]
           /\ Drops(mem.log) = <<>>
           /\ \A i \in 0 .. buf.len - 1 :
                  LET a == PtrAdd(buf.ptr, i)
                  IN  CopiesIn(a, mem.live) = PrefixAt(buf.ptr, buf.len, a)
           /\ ~mem.ub
    /\ op.name = "drop_handle" =>
           /\ op.h = [ptr |-> buf.ptr, len |-> buf.len, valid |-> TRUE]
           /\ Drops(mem.log) = PrefixDrops(buf.ptr, buf.len)
           /\ mem.live = EmptyBag
           /\ ~mem.ub

C12_Witness ==
    /\ op.name = "drop_handle"
    /\ op.from = "finish"
    /\ op.h.len = 3
    /\ T.size = 2
    /\ Len(Drops(mem.log)) = 3
    /\ Len(OkCalls(mem.log)) = 3

\* C18: a slice is filled left to right: the i-th call (from 0) of the
\* closure of try_for_each / for_each / SliceInit on a fresh writer gets
\* element i, so that the closure writing 0, 1, 2, ... leaves element i
\* reading i ([0,1,2,3,4] for 5 elements).
C18_LeftToRight ==
    (op.name \in {"try_for_each", "for_each", "SliceInit"} /\ ret = ResOk) =>
        LET base == op.w.uninit.ptr
            done == op.w.uninit.len - op.w.remaining
        IN  /\ Calls(OpEvents) =
                   [j \in 1 .. op.w.remaining |->
                       [ev |-> "call", addr |-> PtrAdd(base, done + j - 1), ok |-> TRUE]]
            /\ (op.name # "for_each" /\ T.size # 0) =>
                   \A j \in 1 .. op.w.remaining :
                       mem.store[PtrAdd(base, done + j - 1)] = op.f[j].val
            /\ handle = [ptr |-> base, len |-> op.w.uninit.len, valid |-> TRUE]

C18_Witness ==
    /\ op.name = "SliceInit"
    /\ op.f = Counting(5)
    /\ T.size = 1
    /\ ret = ResOk
    /\ handle.len = 5
    /\ \A i \in 0 .. 4 : mem.store[handle.ptr + i] = i

\* a try_write / write / init of the caller on a finished writer
WriteFinished ==
    /\ phase = "writer"
    /\ is_finished(writer)
    /\ W_write \/ \E init \in Outcomes : W_try_write(init)

\* the cursor of a live writer is inside the slice or one past its end, and
\* remaining counts the elements from the cursor to the end
InsideSlice ==
    writer.kind # "none" =>
        /\ writer.remaining \in 0 .. writer.uninit.len
        /\ writer.current =
               PtrAdd(writer.uninit.ptr, writer.uninit.len - writer.remaining)

\* C31: try_write, write and init on a finished writer (remaining = 0) panic
\* before the initializer is called and before anything changes: no event is
\* logged, memory and writer stay as they were, so the cursor never passes
\* the end of the slice and remaining never goes below 0.
C31_FinishedPanics ==
    /\ []InsideSlice
    /\ [][WriteFinished =>
              /\ ret' = ResPanic
              /\ mem' = mem
              /\ writer' = writer]_vars

C31_Witness ==
    /\ op.name = "write"
    /\ ret = ResPanic
    /\ writer.kind = "PinSliceWriter"
    /\ writer.uninit.len = 2
    /\ writer.remaining = 0
    /\ Len(Calls(mem.log)) = 2

C31_WitnessTry ==
    /\ op.name = "try_write"
    /\ op.init.tag = "Ok"
    /\ ret = ResPanic
    /\ writer.kind = "Writer"
    /\ writer.uninit.len = 0
    /\ mem.log = <<>>

\* the initializer calls made through the writer so far
WriterCalls == Calls(mem.log)

\* how many of the first j initializer calls succeeded
OkBefore(j) == Len(OkCalls(SubSeq(WriterCalls, 1, j)))

\* C32: over any sequence of try_write (and write) calls on one writer, the
\* j-th initializer call is given the slot after the ones initialized so
\* far: successful calls get base, base+1, base+2, ... in order, a call that
\* follows a failed one gets the same slot again, and no more than n calls
\* succeed, so no slot is initialized twice.
C32_OnceEach ==
    phase = "writer" =>
        /\ \A j \in 1 .. Len(WriterCalls) :
               WriterCalls[j].addr = PtrAdd(buf.ptr, OkBefore(j - 1))
        /\ OkBefore(Len(WriterCalls)) = buf.len - writer.remaining
        /\ OkBefore(Len(WriterCalls)) <= buf.len

\* the second call fails on slot 1, the third succeeds on slot 1
C32_Witness ==
    /\ phase = "writer"
    /\ T.size = 1
    /\ buf.len = 3
    /\ Len(WriterCalls) = 4
    /\ op.name = "try_write"
    /\ [j \in 1 .. 4 |-> WriterCalls[j].ok] = <<TRUE, FALSE, TRUE, TRUE>>
    /\ [j \in 1 .. 4 |-> WriterCalls[j].addr - buf.ptr] = <<0, 1, 1, 2>>
    /\ writer.remaining = 0

\* C35: finish on a writer over n elements that is not finished fails its
\* assertion, and the unwinding still tears the writer down: the k elements
\* initialized so far are destructed once each, element 0 first, and none of
\* the other n - k slots is destructed or written.
C35_FinishTearsDown ==
    (op.name = "finish" /\ ~is_finished(op.w)) =>
        /\ ret = ResPanic
        /\ Drops(mem.log) =
               PrefixDrops(op.w.uninit.ptr, op.w.uninit.len - op.w.remaining)
        /\ Len(Drops(mem.log)) = Len(OkCalls(mem.log))
        /\ mem.live = EmptyBag
        /\ ~mem.ub

C35_Witness ==
    /\ op.name = "finish"
    /\ op.w.kind = "SliceWriter"
    /\ op.w.uninit.len = 4
    /\ op.w.remaining = 2
    /\ T.size = 2
    /\ ret = ResPanic
    /\ Drops(mem.log) = PrefixDrops(buf.ptr, 2)

C35_WitnessNone ==
    /\ op.name = "finish"
    /\ op.w.kind = "PinSliceWriter"
    /\ op.w.uninit.len = 2
    /\ op.w.remaining = 2
    /\ ret = ResPanic
    /\ Drops(mem.log) = <<>>

\* the operations that end a writer and hand back the slice
Finishing == {"finish", "try_for_each", "for_each", "SliceInit"}

\* C37: a SliceWriter / PinSliceWriter over a slice of length 0 is finished
\* from the start: is_finished is true, for_each / try_for_each (and
\* SliceInit, which is try_for_each) never call the element function,
\* finish succeeds with an empty Init handle over the slice, and dropping
\* the writer runs no destructor.
C37_EmptyIsFinished ==
    buf.len = 0 =>
        /\ writer # NoWriter => is_finished(writer)
        /\ mem.log = <<>>
        /\ mem.live = EmptyBag
        /\ ~mem.ub
        /\ op.name \in Finishing =>
               /\ is_finished(op.w)
               /\ ret = ResOk
               /\ phase = "handle"
               /\ handle = [ptr |-> buf.ptr, len |-> 0, valid |-> TRUE]
        /\ op.name = "drop" => is_finished(op.w) /\ phase = "done"

C37_Witness ==
    /\ buf.len = 0
    /\ op.name = "finish"
    /\ op.w.kind = "SliceWriter"
    /\ ret = ResOk
    /\ handle = [ptr |-> buf.ptr, len |-> 0, valid |-> TRUE]

C37_WitnessForEach ==
    /\ buf.len = 0
    /\ op.name = "for_each"
    /\ op.w.kind = "PinSliceWriter"
    /\ ret = ResOk
    /\ mem.log = <<>>

C37_WitnessTryForEach ==
    /\ buf.len = 0
    /\ op.name = "try_for_each"
    /\ op.f = <<>>
    /\ ret = ResOk
    /\ mem.log = <<>>

C37_WitnessDrop ==
    /\ buf.len = 0
    /\ op.name = "drop"
    /\ op.w.kind = "PinSliceWriter"
    /\ phase = "done"
    /\ mem.log = <<>>

----------------------------------------------------------------------------
(* Claims about handles and the library's initializers, checked under       *)
(* HandleSpec                                                               *)

\* the initializer is, or wraps, a broken closure
RECURSIVE IsRogue(_)
IsRogue(init) ==
    IF init.tag = "Rogue" THEN TRUE
    ELSE IF init.tag \in {"InitFn", "TryInitFn"} THEN IsRogue(init.f)
    ELSE IF init.tag \in {"AsPinInit", "AsInit", "ArrayInit"} THEN IsRogue(init.init)
    ELSE FALSE

\* C13: every successful call of a library initializer (Uninit::write, a
\* value, InitFn / TryInitFn around a closure that keeps the address,
\* SliceInit, SliceIterInit, ArrayInit, AsInit, AsPinInit) returns an Init
\* over the address of the Uninit it was given.
C13_Identity ==
    /\ (op.name \in {"write", "try_init"} /\ ret.tag = "Ok") =>
           handle = [ptr |-> buf.ptr, len |-> buf.len, valid |-> TRUE]
    /\ (op.name = "in_place" /\ ~IsRogue(op.init) /\ ret = ResOk) =>
           op.returned = op.given

C13_Witness ==
    /\ op.name = "try_init"
    /\ op.init.tag = "ArrayInit"
    /\ op.init.init.tag = "SliceIterInit"
    /\ buf.len = 3
    /\ T.size = 2
    /\ ret = ResOk
    /\ handle.ptr = buf.ptr

\* the last call of try_init_in_place / try_pin_init_in_place got, from its
\* initializer, an Init over another address than the one it passed
Mismatch == op.name = "in_place" /\ op.returned # op.given

\* C14 as stated: whenever the initializer handed to try_init_in_place /
\* try_pin_init_in_place returns a handle over another address, the call
\* does not return Ok but fails an assertion.
C14_MismatchAlwaysFatal ==
    Mismatch => ret = ResPanic

\* C14, amended: in a build with debug assertions a handle over another
\* address makes the call fail an assertion, never return Ok; in a build
\* without them the address is not compared and the call returns Ok.
C14_MismatchFatalInDebug ==
    Mismatch =>
        /\ mem.debug => ret = ResPanic /\ phase = "done"
        /\ ~mem.debug => ret = ResOk

C14_Witness ==
    /\ Mismatch
    /\ op.pin
    /\ op.init = TryInitFn(InitRogue(48))
    /\ mem.debug
    /\ ret = ResPanic

\* C33: try_init_in_place and try_pin_init_in_place run no destructor of
\* their own and leave the memory as the initializer left it: after Ok(())
\* the value built at ptr is live, its destruction now the caller's, and
\* after Err(e) e is the initializer's own error.
C33_InPlaceKeeps ==
    op.name = "in_place" =>
        /\ mem = op.after
        /\ Drops(mem.log) = <<>>
        /\ ~mem.ub
        /\ (ret = ResOk /\ ~IsRogue(op.init)) =>
               /\ op.got = ResOk
               /\ CopiesIn(op.given.ptr, mem.live) = 1
               /\ phase = "raw"
        /\ op.got.tag = "Err" => ret = op.got
        /\ ret.tag = "Err" => ret = op.got

C33_Witness ==
    /\ op.name = "in_place"
    /\ op.pin
    /\ op.init = TryInitFn(InitVal(7))
    /\ ret = ResOk
    /\ CopiesIn(buf.ptr, mem.live) = 1
    /\ T.size = 1
    /\ mem.store[buf.ptr] = 7

C33_WitnessErr ==
    /\ op.name = "in_place"
    /\ ~op.pin
    /\ op.init = AsInit(TryInitFn(InitErr("e2")))
    /\ ret = ResErr("e2")
    /\ mem.live = EmptyBag

\* C15: dropping an Init that was not converted with into_raw runs the
\* destructor of its pointee exactly once; into_raw returns the handle's
\* address and no destructor runs, then or later, for that handle; dropping
\* an Uninit runs no destructor.
C15_HandleTeardown ==
    /\ op.name = "drop_handle" =>
           /\ Drops(mem.log) = PrefixDrops(op.h.ptr, op.h.len)
           /\ mem.live = EmptyBag
           /\ ~mem.ub
    /\ op.name \in {"into_raw", "raw_kept"} =>
           /\ op.name = "into_raw" => ret = [tag |-> "Ptr", ptr |-> [ptr |-> op.h.ptr, len |-> op.h.len]]
           /\ Drops(mem.log) = <<>>
           /\ \A i \in 0 .. op.h.len - 1 :
                  LET a == PtrAdd(op.h.ptr, i)
                  IN  CopiesIn(a, mem.live) = PrefixAt(op.h.ptr, op.h.len, a)
           /\ ~mem.ub
    /\ op.name = "drop_uninit" =>
           /\ mem.log = <<>>
           /\ mem.live = EmptyBag
           /\ ~mem.ub

C15_Witness ==
    /\ op.name = "raw_kept"
    /\ op.h = [ptr |-> 16, len |-> 1, valid |-> TRUE]
    /\ T.size = 1
    /\ CopiesIn(16, mem.live) = 1

C15_WitnessDrop ==
    /\ op.name = "drop_handle"
    /\ op.from = "write"
    /\ Len(Drops(mem.log)) = 1

\* C16: Uninit::write(value) stores value at the handle's address, runs no
\* destructor on what the slot held before, and returns an Init over the same
\* address whose pointee is value.
C16_WriteStores ==
    op.name = "write" =>
        /\ ret = ResOk
        /\ handle = [ptr |-> buf.ptr, len |-> 1, valid |-> TRUE]
        /\ mem.store = [x \in {handle.ptr} |-> op.val]
        /\ CopiesIn(handle.ptr, mem.live) = 1
        /\ Drops(mem.log) = <<>>
        /\ ~mem.ub

C16_Witness ==
    /\ op.name = "write"
    /\ op.val = 7
    /\ op.old = StaleBits(buf.ptr)
    /\ mem.store[handle.ptr] = 7
    /\ T.size = 2

\* the last operation ran a SliceIterInit, bare or as a [T; N] initializer
RanSliceIterInit ==
    /\ op.name = "try_init"
    /\ \/ op.init.tag = "SliceIterInit"
       \/ op.init.tag = "ArrayInit" /\ op.init.init.tag = "SliceIterInit"
\* the initializers its iterator yields
IterItems == IF op.init.tag = "ArrayInit" THEN op.init.init.items ELSE op.init.items
\* those of them the slice has room for
IterUsed == SubSeq(IterItems, 1, IF Len(IterItems) < buf.len THEN Len(IterItems) ELSE buf.len)

\* C17: SliceIterInit over an iterator that yields m < n initializers, all
\* succeeding, for a slice of n returns SliceIterInitError::NotEnoughItems
\* after destructing exactly the m elements it initialized; an error e of a
\* yielded initializer is returned as SliceIterInitError::Init(e).
C17_IterInit ==
    RanSliceIterInit =>
        /\ (~Fails(IterUsed) /\ Len(IterItems) < buf.len) =>
               /\ ret = ResErr(SliceIterInitError_NotEnoughItems)
               /\ handle = NoHandle
               /\ Len(OkCalls(mem.log)) = Len(IterItems)
               /\ Drops(mem.log) = PrefixDrops(buf.ptr, Len(IterItems))
               /\ mem.live = EmptyBag
               /\ ~mem.ub
        /\ Fails(IterUsed) =>
               /\ ret = ResErr(SliceIterInitError_Init(IterUsed[FirstErr(IterUsed)].err))
               /\ handle = NoHandle
               /\ Drops(mem.log) = PrefixDrops(buf.ptr, FirstErr(IterUsed) - 1)
               /\ mem.live = EmptyBag
               /\ ~mem.ub

C17_Witness ==
    /\ RanSliceIterInit
    /\ buf.len = 3
    /\ IterItems = <<InitOk, InitOk>>
    /\ ret = ResErr(SliceIterInitError_NotEnoughItems)
    /\ Len(Drops(mem.log)) = 2

C17_WitnessInitError ==
    /\ RanSliceIterInit
    /\ buf.len = 3
    /\ IterItems = <<InitOk, InitErr("e2"), InitOk>>
    /\ ret = ResErr(SliceIterInitError_Init("e2"))

\* the calls of the closure of SliceIterInit, each of which takes one item
\* from the iterator with self.0.next()
Pulls == Calls(mem.log)

\* C36: SliceIterInit takes one item from its iterator per slot it attempts,
\* slot j getting the j-th item, stops at the first failure and never takes
\* more than n for a slice of n: on success exactly n items are used and any
\* further items are left in the iterator, and for a slice of length 0 the
\* iterator is never asked and the result is Ok with an empty handle.
C36_OneItemPerSlot ==
    RanSliceIterInit =>
        /\ Len(Pulls) <= buf.len
        /\ \A j \in 1 .. Len(Pulls) :
               /\ Pulls[j].addr = PtrAdd(buf.ptr, j - 1)
               /\ Pulls[j].ok <=> (j <= Len(IterItems) /\ IterItems[j].tag = "Ok")
               /\ j < Len(Pulls) => Pulls[j].ok
        /\ (Len(IterItems) >= buf.len /\ ~Fails(IterUsed)) => ret = ResOk
        /\ ret = ResOk =>
               /\ Len(Pulls) = buf.len
               /\ handle = [ptr |-> buf.ptr, len |-> buf.len, valid |-> TRUE]
        /\ ret # ResOk => ~Pulls[Len(Pulls)].ok
        /\ buf.len = 0 => mem.log = <<>> /\ ret = ResOk

\* two slots, three items of which the third, left over, would fail
C36_Witness ==
    /\ RanSliceIterInit
    /\ op.init.tag = "SliceIterInit"
    /\ buf.len = 2
    /\ IterItems = <<InitOk, InitOk, InitErr("e1")>>
    /\ ret = ResOk
    /\ Len(Pulls) = 2

C36_WitnessEmpty ==
    /\ RanSliceIterInit
    /\ op.pin
    /\ buf.len = 0
    /\ IterItems = <<InitErr("e2")>>
    /\ ret = ResOk
    /\ handle = [ptr |-> buf.ptr, len |-> 0, valid |-> TRUE]
    /\ mem.log = <<>>

\* C38: PinnedInit<[T; N]>::try_from on a PinnedInit<[T]> succeeds exactly
\* when the slice's length is N and then returns a handle over the same
\* address; otherwise the error is the slice handle it was given, unchanged;
\* either way the conversion destructs no element and leaves memory as it was.
C38_TryFromLength ==
    op.name = "try_from" =>
        /\ ret = ResOk <=> op.h.len = op.N
        /\ ret = ResOk =>
               handle = [ptr |-> op.h.ptr, len |-> op.N, valid |-> TRUE]
        /\ ret # ResOk => op.out = ResErr(op.h) /\ handle = op.h
        /\ handle.valid
        /\ mem = op.m
        /\ phase = "handle"

C38_Witness ==
    /\ op.name = "try_from"
    /\ T.size = 1
    /\ op.h = [ptr |-> buf.ptr, len |-> 2, valid |-> TRUE]
    /\ op.N = 2
    /\ ret = ResOk
    /\ handle = op.h
    /\ Drops(mem.log) = <<>>

C38_WitnessErr ==
    /\ op.name = "try_from"
    /\ T.size = 1
    /\ op.h.len = 2
    /\ op.N = 3
    /\ ret.tag = "Err"
    /\ handle = op.h
    /\ Drops(mem.log) = <<>>

\* C39: Uninit::write_array and Uninit::write_slice on a slice whose length
\* differs from the source's panic before anything is written; with equal
\* lengths they write the source's elements in order, element i to slot i,
\* destruct nothing and return an Init over the slice's address.
C39_WriteAllOrPanic ==
    op.name \in {"write_array", "write_slice"} =>
        IF buf.len # Len(op.src)
        THEN /\ ret = ResPanic
             /\ mem.store = op.old
             /\ mem.log = <<>>
             /\ mem.live = EmptyBag
             /\ handle = NoHandle
        ELSE /\ ret = ResOk
             /\ handle = [ptr |-> buf.ptr, len |-> buf.len, valid |-> TRUE]
             /\ Len(mem.log) = buf.len
             /\ \A i \in 1 .. buf.len :
                    /\ mem.log[i] = [ev |-> "write", addr |-> PtrAdd(buf.ptr, i - 1),
                                     val |-> op.src[i]]
                    /\ T.size > 0 =>
                           /\ mem.store[PtrAdd(buf.ptr, i - 1)] = op.src[i]
                           /\ CopiesIn(PtrAdd(buf.ptr, i - 1), mem.live) = 1
             /\ BagCardinality(mem.live) = buf.len
             /\ ~mem.ub

C39_Witness ==
    /\ op.name = "write_array"
    /\ T.size = 2
    /\ buf.len = 3
    /\ op.src = <<7, 0, 7>>
    /\ ret = ResOk
    /\ mem.store[PtrAdd(buf.ptr, 2)] = 7

C39_WitnessSlice ==
    /\ op.name = "write_slice"
    /\ T.size = 1
    /\ buf.len = 2
    /\ op.src = <<0, 7>>
    /\ ret = ResOk
    /\ mem.store[PtrAdd(buf.ptr, 1)] = 7

C39_WitnessShort ==
    /\ op.name = "write_array"
    /\ buf.len = 3
    /\ op.src = <<7, 7>>
    /\ op.old = StaleBits(buf.ptr)
    /\ ret = ResPanic

C39_WitnessLong ==
    /\ op.name = "write_slice"
    /\ buf.len = 1
    /\ op.src = <<7, 0>>
    /\ ret = ResPanic
    /\ mem.store = op.old

\* the initializer wrapped by AsPinInit fails / the error it fails with
WrappedFails(i) ==
    \/ i.tag = "Err"
    \/ i.tag = "TryInitFn" /\ i.f.tag = "Err"
    \/ i.tag = "SliceInit" /\ Fails(i.f)
WrappedErr(i) ==
    IF i.tag = "Err" THEN i.err
    ELSE IF i.tag = "TryInitFn" THEN i.f.err
    ELSE i.f[FirstErr(i.f)].err

\* C19: an unpinned initializer converted with to_pin_init and used as a
\* pinned initializer gives its caller the outcome of the wrapped
\* initializer: on success a pinned handle over the same address, on its
\* failure with e, Err(e).
C19_AsPinInitPropagates ==
    (op.name = "try_init" /\ op.pin /\ op.init.tag = "AsPinInit"
         /\ op.init.init.tag # "SliceIterInit") =>
        IF WrappedFails(op.init.init)
        THEN /\ ret = ResErr(WrappedErr(op.init.init))
             /\ handle = NoHandle
        ELSE /\ ret = ResOk
             /\ handle = [ptr |-> buf.ptr, len |-> buf.len, valid |-> TRUE]

\* C30: a pinned initializer converted with to_init gives its caller the
\* outcome of the wrapped initializer, used as an unpinned and as a pinned
\* initializer alike: on success Ok with a handle over the same address, on
\* its failure with e, Err(e).
C30_AsInitPropagates ==
    (op.name = "try_init" /\ op.init.tag = "AsInit") =>
        IF WrappedFails(op.init.init)
        THEN /\ ret = ResErr(WrappedErr(op.init.init))
             /\ handle = NoHandle
        ELSE /\ ret = ResOk
             /\ handle = [ptr |-> buf.ptr, len |-> buf.len, valid |-> TRUE]

C30_Witness ==
    /\ op.name = "try_init"
    /\ ~op.pin
    /\ op.init = AsInit(TryInitFn(InitErr("e2")))
    /\ ret = ResErr("e2")
    /\ handle = NoHandle

C30_WitnessOk ==
    /\ op.name = "try_init"
    /\ op.pin
    /\ op.init = AsInit(InitFn(InitVal(7)))
    /\ ret = ResOk
    /\ handle.valid
    /\ handle.ptr = buf.ptr

----------------------------------------------------------------------------
(* Layout providers *)

SizedLayoutProvider == [kind |-> "Sized"]
SliceLayoutProvider(n) == [kind |-> "Slice", len |-> n]

LayoutError == [ok |-> FALSE]
LayoutOk(size, align) == [ok |-> TRUE, layout |-> [size |-> size, align |-> align]]

\* Layout::new::<T>()
Layout_new == LayoutOk(T.size, T.align)

\* a faulty Layout::array::<T>(n): the product computed in usize, unchecked
Layout_array_wrapping(n) == LayoutOk((T.size * n) % (UsizeMax + 1), T.align)

\* Layout::array::<T>(n): an error when the size, rounded up to the
\* alignment, would exceed isize::MAX
Layout_array(n) ==
    IF T.size # 0 /\ n > (IsizeMax - (T.align - 1)) \div T.size
    THEN LayoutError
    ELSE LayoutOk(T.size * n, T.align)

layout_for(provider) ==
    IF provider.kind = "Sized" THEN Layout_new ELSE Layout_array(provider.len)

\* a faulty cast: the pointer one alignment step further on
cast_shifted(provider, ptr) ==
    IF provider.kind = "Sized"
    THEN [ptr |-> ptr + T.align, len |-> 1]
    ELSE [ptr |-> ptr + T.align, len |-> provider.len]

\* cast: the same address, typed; a *mut T covers one element
cast(provider, ptr) ==
    IF provider.kind = "Sized"
    THEN [ptr |-> ptr, len |-> 1]
    ELSE [ptr |-> ptr, len |-> provider.len]

cast_nonnull(provider, ptr) == cast(provider, ptr)

----------------------------------------------------------------------------
(* The caller of the layout providers *)

\* every provider there is: SizedLayoutProvider and SliceLayoutProvider(n) for
\* each n: usize
AllProviders == {SizedLayoutProvider} \cup { SliceLayoutProvider(n) : n \in 0 .. UsizeMax }

\* addresses handed to cast: null, odd, even, the highest
CastAddrs == {0, 1, 16, UsizeMax}

LInit ==
    /\ T \in ElemTypes
    /\ phase = "idle"
    /\ buf = [ptr |-> 0, len |-> 0]
    /\ writer = NoWriter
    /\ handle = NoHandle
    /\ mem = EmptyMem
    /\ op = [name |-> "none"]
    /\ ret = NoRet
    /\ box = NoBox

\* provider.layout_for()
P_layout_for ==
    /\ \E provider \in AllProviders :
           /\ op' = [name |-> "layout_for", provider |-> provider]
           /\ ret' = layout_for(provider)
    /\ UNCHANGED <<T, phase, buf, writer, handle, mem, box>>

\* provider.cast(ptr)
P_cast ==
    /\ \E provider \in AllProviders, ptr \in CastAddrs :
           /\ op' = [name |-> "cast", provider |-> provider, ptr |-> ptr]
           /\ ret' = cast(provider, ptr)
    /\ UNCHANGED <<T, phase, buf, writer, handle, mem, box>>

\* provider.cast_nonnull(ptr)
P_cast_nonnull ==
    /\ \E provider \in AllProviders, ptr \in CastAddrs \ {0} :
           /\ op' = [name |-> "cast_nonnull", provider |-> provider, ptr |-> ptr]
           /\ ret' = cast_nonnull(provider, ptr)
    /\ UNCHANGED <<T, phase, buf, writer, handle, mem, box>>

LNext ==
    \/ P_layout_for
    \/ P_cast
    \/ P_cast_nonnull

LayoutSpec == LInit /\ [][LNext]_vars

----------------------------------------------------------------------------
(* The global allocator *)

\* addresses alloc may answer for layout: null, or a free aligned block
AllocAnswers(layout, m) ==
    {0} \cup { a \in HeapAddrs :
                 /\ a % layout.align = 0
                 /\ \A b \in m.heap : b.ptr # a }

\* alloc::alloc(layout), a being the allocator's answer
alloc(layout, a, m) ==
    LET logged == Log(m, [ev |-> "alloc", layout |-> layout, ptr |-> a])
    IN  [ptr |-> a,
         m |-> IF a = 0 THEN logged
               ELSE [logged EXCEPT !.heap = @ \cup {[ptr |-> a, layout |-> layout]}]]

\* alloc::dealloc(ptr, layout): undefined unless ptr is a block the allocator
\* handed out with this layout and has not yet taken back
dealloc(ptr, layout, m) ==
    LET logged == Log(m, [ev |-> "dealloc", ptr |-> ptr, layout |-> layout])
        block == [ptr |-> ptr, layout |-> layout]
    IN  IF block \in m.heap
        THEN [logged EXCEPT !.heap = @ \ {block}]
        ELSE [logged EXCEPT !.ub = TRUE]

----------------------------------------------------------------------------
(* Heap emplace *)

AllocError_Init(e) == ResErr([kind |-> "Init", e |-> e])
AllocError_Layout == ResErr([kind |-> "Layout"])
AllocError_Alloc(layout) == ResErr([kind |-> "Alloc", layout |-> layout])

\* a faulty Drop for RawAllocation: the block is never given back
RawAllocation_drop_leaks(guard, m) == m

\* Drop for RawAllocation
RawAllocation_drop(guard, m) == dealloc(guard.ptr, guard.layout, m)

\* try_emplace with one of its steps left out or done wrong:
\*   "keeps_guard"      no mem::forget(alloc): the guard drops on success too
\*   "always_allocs"    no test for a layout of size 0
\*   "null_unchecked"   no test for a null answer of the allocator
\*   "layout_unchecked" a LayoutError taken for the layout of ()
try_emplace_faulty(fault, provider, init, a, m) ==
    LET lay == layout_for(provider)
    IN  IF ~lay.ok /\ fault # "layout_unchecked"
        THEN [res |-> AllocError_Layout, box |-> NoBox, m |-> m]
        ELSE
        LET layout == IF lay.ok THEN lay.layout ELSE [size |-> 0, align |-> 1]
            got == IF layout.size = 0 /\ fault # "always_allocs"
                   THEN [ptr |-> layout.align, m |-> m]
                   ELSE alloc(layout, a, m)
        IN  IF got.ptr = 0 /\ fault # "null_unchecked"
            THEN [res |-> AllocError_Alloc(layout), box |-> NoBox, m |-> got.m]
            ELSE
            LET ptr == [ptr |-> got.ptr, len |-> IF lay.ok THEN cast(provider, 0).len ELSE 0]
                guard == [ptr |-> ptr.ptr, layout |-> layout]
                r == try_init_in_place(ptr, TryInit(
                         IF lay.ok THEN init ELSE SliceInit(<<>>), ptr, got.m))
            IN  IF r.res.tag = "Err"
                THEN [res |-> AllocError_Init(r.res.err), box |-> NoBox,
                      m |-> RawAllocation_drop(guard, r.m)]
                ELSE IF r.res.tag = "Panic"
                THEN [res |-> ResPanic, box |-> NoBox,
                      m |-> RawAllocation_drop(guard, r.m)]
                ELSE [res |-> ResOk,
                      box |-> [p |-> ptr, kind |-> provider.kind, pinned |-> FALSE,
                               valid |-> TRUE],
                      m |-> IF fault = "keeps_guard"
                            THEN RawAllocation_drop(guard, r.m) ELSE r.m]

try_emplace_keeps_guard(provider, init, a, m) ==
    try_emplace_faulty("keeps_guard", provider, init, a, m)

try_emplace_always_allocs(provider, init, a, m) ==
    try_emplace_faulty("always_allocs", provider, init, a, m)

try_emplace_null_unchecked(provider, init, a, m) ==
    try_emplace_faulty("null_unchecked", provider, init, a, m)

try_emplace_layout_unchecked(provider, init, a, m) ==
    try_emplace_faulty("layout_unchecked", provider, init, a, m)

\* the match on what the initializer returned, r, with the allocation held
\* by guard: Err(err) leaves with AllocError::Init(err) and an unwinding
\* initializer with its panic, both dropping the guard; Ok forgets the guard
\* and makes the box over ptr
Boxed(provider, guard, ptr, pinned, r) ==
    IF r.res.tag = "Err"
    THEN [res |-> AllocError_Init(r.res.err), box |-> NoBox,
          m |-> RawAllocation_drop(guard, r.m)]
    ELSE IF r.res.tag = "Panic"
    THEN [res |-> ResPanic, box |-> NoBox,
          m |-> RawAllocation_drop(guard, r.m)]
    ELSE [res |-> ResOk,
          box |-> [p |-> ptr, kind |-> provider.kind, pinned |-> pinned,
                   valid |-> TRUE],
          m |-> r.m]

\* try_emplace(provider, init), a being the allocator's answer if asked
try_emplace(provider, init, a, m) ==
    LET lay == layout_for(provider)
    IN  IF ~lay.ok
        THEN [res |-> AllocError_Layout, box |-> NoBox, m |-> m]
        ELSE
        LET layout == lay.layout
            got == IF layout.size = 0
                   THEN [ptr |-> layout.align, m |-> m]
                   ELSE alloc(layout, a, m)
        IN  IF got.ptr = 0
            THEN [res |-> AllocError_Alloc(layout), box |-> NoBox, m |-> got.m]
            ELSE
            LET ptr == cast_nonnull(provider, got.ptr)
                guard == [ptr |-> ptr.ptr, layout |-> layout]
            IN  Boxed(provider, guard, ptr, FALSE,
                      try_init_in_place(ptr, TryInit(init, ptr, got.m)))

\* the bytes of n units at from copied to to, the value going with them
MoveValue(from, to, n, m) ==
    [m EXCEPT !.live = (@ (-) SetToBag({from})) (+) SetToBag({to}),
              !.store = [x \in DOMAIN @ \cup { to + i : i \in { j \in 0 .. n - 1 : from + j \in DOMAIN @ } } |->
                            IF x - to \in 0 .. n - 1 /\ from + (x - to) \in DOMAIN @
                            THEN @[from + (x - to)] ELSE @[x]]]

\* a faulty try_emplace_pin: the value is built in a temporary and then moved
\* into the allocation
try_emplace_pin_moves(provider, init, a, m) ==
    LET lay == layout_for(provider)
    IN  IF ~lay.ok
        THEN [res |-> AllocError_Layout, box |-> NoBox, m |-> m]
        ELSE
        LET layout == lay.layout
            got == IF layout.size = 0
                   THEN [ptr |-> layout.align, m |-> m]
                   ELSE alloc(layout, a, m)
        IN  IF got.ptr = 0
            THEN [res |-> AllocError_Alloc(layout), box |-> NoBox, m |-> got.m]
            ELSE
            LET ptr == cast_nonnull(provider, got.ptr)
                tmp == [ptr EXCEPT !.ptr = 48]
                guard == [ptr |-> ptr.ptr, layout |-> layout]
                r == try_pin_init_in_place(tmp, TryPinInit(init, tmp, got.m))
            IN  IF r.res.tag # "Ok"
                THEN [res |-> IF r.res.tag = "Err" THEN AllocError_Init(r.res.err)
                              ELSE ResPanic,
                      box |-> NoBox, m |-> RawAllocation_drop(guard, r.m)]
                ELSE [res |-> ResOk,
                      box |-> [p |-> ptr, kind |-> provider.kind, pinned |-> TRUE,
                               valid |-> TRUE],
                      m |-> MoveValue(tmp.ptr, ptr.ptr, layout.size, r.m)]

\* try_emplace_pin(provider, init)
try_emplace_pin(provider, init, a, m) ==
    LET lay == layout_for(provider)
    IN  IF ~lay.ok
        THEN [res |-> AllocError_Layout, box |-> NoBox, m |-> m]
        ELSE
        LET layout == lay.layout
            got == IF layout.size = 0
                   THEN [ptr |-> layout.align, m |-> m]
                   ELSE alloc(layout, a, m)
        IN  IF got.ptr = 0
            THEN [res |-> AllocError_Alloc(layout), box |-> NoBox, m |-> got.m]
            ELSE
            LET ptr == cast_nonnull(provider, got.ptr)
                guard == [ptr |-> ptr.ptr, layout |-> layout]
            IN  Boxed(provider, guard, ptr, TRUE,
                      try_pin_init_in_place(ptr, TryPinInit(init, ptr, got.m)))

\* Layout::for_value of the boxed T or [T]
Box_layout(b) == [size |-> T.size * b.p.len, align |-> T.align]

\* dropping the Box made by Box::from_raw: the value's destructor, then the
\* block goes back to the allocator unless its layout has size 0
Box_drop(b, m) ==
    LET dropped == drop_in_place(b.p.ptr, b.p.len, m)
    IN  IF Box_layout(b).size # 0
        THEN dealloc(b.p.ptr, Box_layout(b), dropped)
        ELSE dropped

\* the process ends: alloc::handle_alloc_error
ResAbort == [tag |-> "Abort"]

\* alloc::handle_alloc_error(layout): the process ends in the allocator's
\* out-of-memory handler, which is told the layout
handle_alloc_error(layout) == [tag |-> ResAbort.tag, layout |-> layout]

\* panic!(msg)
PanicWith(msg) == [tag |-> ResPanic.tag, msg |-> msg]

\* a faulty handle: an allocation failure panics like the other errors
boxed_handle_no_oom(r) ==
    IF r.res.tag # "Err" THEN r
    ELSE IF r.res.err.kind = "Init"
    THEN [r EXCEPT !.res = PanicWith(<<"Failed to initialize value", r.res.err.e>>)]
    ELSE [r EXCEPT !.res = PanicWith(<<"Could not compute layout for value">>)]

\* match result { Ok(boxed) => boxed, Err(ref err) => handle(err) }: an error
\* panics with a message or, for AllocError::Alloc, calls handle_alloc_error
boxed_handle(r) ==
    IF r.res.tag # "Err" THEN r
    ELSE IF r.res.err.kind = "Init"
    THEN [r EXCEPT !.res = PanicWith(<<"Failed to initialize value", r.res.err.e>>)]
    ELSE IF r.res.err.kind = "Layout"
    THEN [r EXCEPT !.res = PanicWith(<<"Could not compute layout for value">>)]
    ELSE [r EXCEPT !.res = handle_alloc_error(r.res.err.layout)]

\* emplace(provider, init)
emplace(provider, init, a, m) == boxed_handle(try_emplace(provider, init, a, m))

\* emplace_pin(provider, init)
emplace_pin(provider, init, a, m) == boxed_handle(try_emplace_pin(provider, init, a, m))

\* SelfRef::new(value)
SelfRef_new(value, a, m) == emplace_pin(SizedLayoutProvider, SelfRef_init(value), a, m)

\* SelfRef::get: *self.current
SelfRef_get(b, m) == m.store[m.store[b.p.ptr + CurrentOffset]]

\* SelfRef::set_first: *this.current = &mut *this.first
SelfRef_set_first(b, m) == StoreField(b.p.ptr + CurrentOffset, b.p.ptr + FirstOffset, m)

\* SelfRef::set_second: *this.current = &mut *this.second
SelfRef_set_second(b, m) == StoreField(b.p.ptr + CurrentOffset, b.p.ptr + SecondOffset, m)

----------------------------------------------------------------------------
(* The caller of try_emplace *)

\* slice lengths asked for: short ones and, of elements that have a size, two
\* too long for any layout
LongLens == {IsizeMax + 1, UsizeMax}
Lens == (0 .. MaxLen) \cup (IF T.size # 0 THEN LongLens ELSE {})
Providers == {SizedLayoutProvider} \cup { SliceLayoutProvider(n) : n \in Lens }

\* initializers for the provider's target: an element initializer for T, a
\* SliceInit for [T]
Initializers(provider) ==
    IF provider.kind = "Sized" THEN Outcomes
    ELSE IF provider.len \in LongLens
    THEN { SliceInit([i \in 1 .. provider.len |-> InitOk]) }
    ELSE { SliceInit(f) : f \in Closures(provider.len) }

EInit ==
    /\ T \in ElemTypes
    /\ phase = "idle"
    /\ buf = [ptr |-> 0, len |-> 0]
    /\ writer = NoWriter
    /\ handle = NoHandle
    /\ mem = EmptyMem
    /\ op = [name |-> "none"]
    /\ ret = NoRet
    /\ box = NoBox

\* what the caller sees of a call that ran into r: its result, or, once the
\* call did something undefined, possibly the death of the process
Returned(r, crash) ==
    /\ crash => r.m.ub
    /\ mem' = r.m
    /\ ret' = IF crash THEN ResAbort ELSE r.res
    /\ box' = IF crash THEN NoBox ELSE r.box
    /\ phase' = IF ~crash /\ r.res.tag = "Ok" THEN "box" ELSE "done"

\* the allocator's answer to the call, 0 when the call does not ask
Answers(provider, m) ==
    LET lay == layout_for(provider)
    IN  IF lay.ok /\ lay.layout.size # 0
        THEN AllocAnswers(lay.layout, m)
        ELSE {0}

E_try_emplace ==
    /\ phase = "idle"
    /\ \E provider \in Providers :
       \E init \in Initializers(provider), a \in Answers(provider, mem), crash \in BOOLEAN :
           /\ Returned(try_emplace(provider, init, a, mem), crash)
           /\ op' = [name |-> "try_emplace", provider |-> provider, init |-> init,
                     a |-> a]
    /\ UNCHANGED <<T, buf, writer, handle>>

E_try_emplace_pin ==
    /\ phase = "idle"
    /\ \E provider \in Providers :
       \E init \in Initializers(provider), a \in Answers(provider, mem), crash \in BOOLEAN :
           /\ Returned(try_emplace_pin(provider, init, a, mem), crash)
           /\ op' = [name |-> "try_emplace_pin", provider |-> provider, init |-> init,
                     a |-> a]
    /\ UNCHANGED <<T, buf, writer, handle>>

E_emplace ==
    /\ phase = "idle"
    /\ \E provider \in Providers :
       \E init \in Initializers(provider), a \in Answers(provider, mem), crash \in BOOLEAN :
           /\ Returned(emplace(provider, init, a, mem), crash)
           /\ op' = [name |-> "emplace", provider |-> provider, init |-> init,
                     a |-> a]
    /\ UNCHANGED <<T, buf, writer, handle>>

E_emplace_pin ==
    /\ phase = "idle"
    /\ \E provider \in Providers :
       \E init \in Initializers(provider), a \in Answers(provider, mem), crash \in BOOLEAN :
           /\ Returned(emplace_pin(provider, init, a, mem), crash)
           /\ op' = [name |-> "emplace_pin", provider |-> provider, init |-> init,
                     a |-> a]
    /\ UNCHANGED <<T, buf, writer, handle>>

\* the caller disposes of the Box
B_drop ==
    /\ phase = "box"
    /\ mem' = Box_drop(box, mem)
    /\ box' = NoBox
    /\ phase' = "done"
    /\ op' = [name |-> "drop_box", call |-> op, b |-> box, at |-> Len(mem.log)]
    /\ ret' = NoRet
    /\ UNCHANGED <<T, buf, writer, handle>>

ENext ==
    \/ E_try_emplace
    \/ E_try_emplace_pin
    \/ B_drop

EmplaceSpec == EInit /\ [][ENext]_vars

\* closures that panic on one of their calls, after succeeding on the earlier
PanicClosures(n) ==
    { [i \in 1 .. n |-> IF i = k THEN InitPanic ELSE InitOk] : k \in 1 .. n }

\* initializers for the provider's target that leave by unwinding
Unwinding(provider) ==
    IF provider.kind = "Sized" THEN {InitPanic}
    ELSE { SliceInit(f) : f \in PanicClosures(provider.len) }

\* try_emplace with an initializer that panics
X_try_emplace ==
    /\ phase = "idle"
    /\ \E provider \in {SizedLayoutProvider} \cup { SliceLayoutProvider(n) : n \in 0 .. MaxLen } :
       \E init \in Unwinding(provider), a \in Answers(provider, mem), crash \in BOOLEAN :
           /\ Returned(try_emplace(provider, init, a, mem), crash)
           /\ op' = [name |-> "try_emplace", provider |-> provider, init |-> init,
                     a |-> a]
    /\ UNCHANGED <<T, buf, writer, handle>>

\* try_emplace_pin with an initializer that panics
X_try_emplace_pin ==
    /\ phase = "idle"
    /\ \E provider \in {SizedLayoutProvider} \cup { SliceLayoutProvider(n) : n \in 0 .. MaxLen } :
       \E init \in Unwinding(provider), a \in Answers(provider, mem), crash \in BOOLEAN :
           /\ Returned(try_emplace_pin(provider, init, a, mem), crash)
           /\ op' = [name |-> "try_emplace_pin", provider |-> provider, init |-> init,
                     a |-> a]
    /\ UNCHANGED <<T, buf, writer, handle>>

XNext ==
    \/ X_try_emplace
    \/ X_try_emplace_pin

UnwindSpec == EInit /\ [][XNext]_vars

\* the caller of the wrappers emplace / emplace_pin
UNext ==
    \/ E_emplace
    \/ E_emplace_pin
    \/ B_drop

WrapperSpec == EInit /\ [][UNext]_vars

----------------------------------------------------------------------------
(* The caller of SelfRef *)

\* values the caller stores in first
SelfRefVals == {3, 10}

SRInit ==
    /\ T = SelfRefLayout
    /\ phase = "idle"
    /\ buf = [ptr |-> 0, len |-> 0]
    /\ writer = NoWriter
    /\ handle = NoHandle
    /\ mem \in { [EmptyMem EXCEPT !.debug = d] : d \in BOOLEAN }
    /\ op = [name |-> "none"]
    /\ ret = NoRet
    /\ box = NoBox

\* let this = SelfRef::new(value)
SR_new ==
    /\ phase = "idle"
    /\ \E value \in SelfRefVals, a \in Answers(SizedLayoutProvider, mem), crash \in BOOLEAN :
           /\ Returned(SelfRef_new(value, a, mem), crash)
           /\ op' = [name |-> "new", val |-> value, trail |-> <<>>]
    /\ UNCHANGED <<T, buf, writer, handle>>

\* a call on the SelfRef the caller holds
SR_call(name) ==
    /\ phase = "box"
    /\ Len(op.trail) < MaxCalls
    /\ op' = [name |-> name, val |-> op.val, trail |-> Append(op.trail, name)]
    /\ UNCHANGED <<T, phase, buf, writer, handle, box>>

\* this.get()
SR_get ==
    /\ SR_call("get")
    /\ ret' = [tag |-> "Ok", val |-> SelfRef_get(box, mem)]
    /\ mem' = mem

\* this.as_mut().set_first()
SR_set_first ==
    /\ SR_call("set_first")
    /\ mem' = SelfRef_set_first(box, mem)
    /\ ret' = NoRet

\* this.as_mut().set_second()
SR_set_second ==
    /\ SR_call("set_second")
    /\ mem' = SelfRef_set_second(box, mem)
    /\ ret' = NoRet

\* the SelfRef goes out of scope
SR_drop ==
    /\ phase = "box"
    /\ mem' = Box_drop(box, mem)
    /\ box' = NoBox
    /\ phase' = "done"
    /\ op' = [name |-> "drop_box", call |-> op, b |-> box, at |-> Len(mem.log)]
    /\ ret' = NoRet
    /\ UNCHANGED <<T, buf, writer, handle>>

SRNext ==
    \/ SR_new
    \/ SR_get
    \/ SR_set_first
    \/ SR_set_second
    \/ SR_drop

SelfRefSpec == SRInit /\ [][SRNext]_vars

----------------------------------------------------------------------------
(* Claims about heap emplace, checked under EmplaceSpec *)

IsAlloc(e) == e.ev = "alloc"
IsDealloc(e) == e.ev = "dealloc"
IsInit(e) == e.ev = "init"
Allocs(log) == SelectSeq(log, IsAlloc)
Deallocs(log) == SelectSeq(log, IsDealloc)
Inits(log) == SelectSeq(log, IsInit)

\* the last operation is a call of try_emplace / try_emplace_pin
Emplaced == op.name \in {"try_emplace", "try_emplace_pin"}
\* the layout the call computed
Computed == layout_for(op.provider)
\* the call's layout was computed and has a size other than 0
NonZeroSized(call) ==
    layout_for(call.provider).ok /\ layout_for(call.provider).layout.size # 0
\* the call got to run its initializer
RanInit ==
    /\ Computed.ok
    /\ Computed.layout.size = 0 \/ op.a # 0

InitFails(init) == IF init.tag = "SliceInit" THEN Fails(init.f) ELSE init.tag = "Err"
InitErrOf(init) ==
    IF init.tag = "SliceInit" THEN init.f[FirstErr(init.f)].err ELSE init.err
\* the elements a failing initializer built and destructed again by itself
OwnRollback(init) == IF init.tag = "SliceInit" THEN FirstErr(init.f) - 1 ELSE 0

AllocEv(layout, a) == [ev |-> "alloc", layout |-> layout, ptr |-> a]
DeallocEv(a, layout) == [ev |-> "dealloc", ptr |-> a, layout |-> layout]

\* C3: a successful call with a layout of non-zero size made exactly one
\* allocate call and no deallocate call, and its Box points at the allocated
\* address; disposing of the Box runs the value's destructor exactly once and
\* then deallocates that address once, with the same layout.
C3_NoLeakNoDoubleFree ==
    /\ (Emplaced /\ ret.tag = "Ok" /\ NonZeroSized(op)) =>
           /\ Allocs(mem.log) = <<AllocEv(Computed.layout, op.a)>>
           /\ Deallocs(mem.log) = <<>>
           /\ box.valid /\ box.p = cast(op.provider, op.a)
           /\ mem.heap = {[ptr |-> op.a, layout |-> Computed.layout]}
           /\ ~mem.ub
    /\ (op.name = "drop_box" /\ NonZeroSized(op.call)) =>
           LET layout == layout_for(op.call.provider).layout
               a == op.call.a
           IN  /\ SubSeq(mem.log, op.at + 1, Len(mem.log)) =
                      PrefixDrops(a, op.b.p.len) \o <<DeallocEv(a, layout)>>
               /\ Allocs(mem.log) = <<AllocEv(layout, a)>>
               /\ Deallocs(mem.log) = <<DeallocEv(a, layout)>>
               /\ mem.heap = {}
               /\ mem.live = EmptyBag
               /\ ~mem.ub

C3_Witness ==
    /\ op.name = "drop_box"
    /\ op.call.name = "try_emplace_pin"
    /\ op.call.provider = SliceLayoutProvider(2)
    /\ T.size = 2
    /\ Len(Drops(mem.log)) = 2
    /\ Len(Deallocs(mem.log)) = 1

\* C4: when the initializer fails with e the call returns AllocError::Init(e)
\* and no Box, the block it allocated is deallocated exactly once with the
\* layout it was allocated with, and the call runs no destructor of its own
\* (the only destructors are those of the initializer's own rollback, before
\* the deallocation).
C4_Rollback ==
    (Emplaced /\ RanInit /\ InitFails(op.init)) =>
        LET layout == Computed.layout
            place == IF layout.size = 0 THEN layout.align ELSE op.a
            allocated == Allocs(mem.log)
        IN  /\ ret = AllocError_Init(InitErrOf(op.init))
            /\ box = NoBox
            /\ allocated = IF layout.size = 0 THEN <<>> ELSE <<AllocEv(layout, op.a)>>
            /\ Deallocs(mem.log) =
                   [i \in DOMAIN allocated |->
                       DeallocEv(allocated[i].ptr, allocated[i].layout)]
            /\ Drops(mem.log) = PrefixDrops(place, OwnRollback(op.init))
            /\ layout.size # 0 => mem.log[Len(mem.log)] = DeallocEv(op.a, layout)
            /\ mem.heap = {}
            /\ ~mem.ub

\* C5: every deallocate call of a call of try_emplace / try_emplace_pin passes
\* an address an earlier allocate call of that call returned, with the same
\* layout, and the call allocates at most once and deallocates at most once.
C5_DeallocPairsAlloc ==
    Emplaced =>
        /\ Len(Allocs(mem.log)) <= 1
        /\ Len(Deallocs(mem.log)) <= 1
        /\ \A j \in 1 .. Len(mem.log) :
               mem.log[j].ev = "dealloc" =>
                   \E i \in 1 .. j - 1 :
                       /\ mem.log[i].ev = "alloc"
                       /\ mem.log[i].ptr = mem.log[j].ptr
                       /\ mem.log[i].ptr # 0
                       /\ mem.log[i].layout = mem.log[j].layout
        /\ ~mem.ub

\* C6: with a layout of size 0 the call never calls allocate and hands its
\* initializer the address equal to the layout's alignment; if the
\* initializer succeeds the call returns a Box over that address owning the
\* empty or zero-sized value.
C6_ZeroSize ==
    (Emplaced /\ Computed.ok /\ Computed.layout.size = 0) =>
        LET sentinel == cast(op.provider, Computed.layout.align)
        IN  /\ Allocs(mem.log) = <<>>
            /\ Inits(mem.log) = <<[ev |-> "init", ptr |-> sentinel]>>
            /\ \A i \in 1 .. Len(mem.log) :
                   mem.log[i].ev = "call" => mem.log[i].addr = T.align
            /\ ~InitFails(op.init) =>
                   /\ ret = ResOk
                   /\ box.valid /\ box.p = sentinel
                   /\ mem.live = [a \in {T.align} \cap { T.align : i \in 1 .. sentinel.len }
                                     |-> sentinel.len]
                   /\ ~mem.ub

C6_Witness ==
    /\ op.name = "try_emplace"
    /\ op.provider = SizedLayoutProvider
    /\ T = [size |-> 0, align |-> 2]
    /\ ret = ResOk
    /\ box.valid
    /\ box.p.ptr = 2

C6_WitnessEmptySlice ==
    /\ op.name = "try_emplace_pin"
    /\ op.provider = SliceLayoutProvider(0)
    /\ T.size = 2
    /\ ret = ResOk
    /\ box.valid

\* C7: when the allocator answers null the call returns
\* AllocError::Alloc(layout) with the computed layout, calls no initializer
\* and makes no deallocate call.
C7_AllocFailure ==
    (Emplaced /\ NonZeroSized(op) /\ op.a = 0) =>
        /\ ret = AllocError_Alloc(Computed.layout)
        /\ box = NoBox
        /\ mem.log = <<AllocEv(Computed.layout, 0)>>
        /\ ~mem.ub

C7_Witness ==
    /\ op.name = "try_emplace"
    /\ op.provider = SliceLayoutProvider(3)
    /\ T.size = 2
    /\ op.a = 0
    /\ ret.tag = "Err"
    /\ ret.err.kind = "Alloc"
    /\ ret.err.layout = [size |-> 6, align |-> T.align]

\* C8: when layout_for returns a LayoutError the call returns
\* AllocError::Layout at once: no allocate call, no initializer call, no
\* deallocate call.
C8_LayoutFailure ==
    (Emplaced /\ ~Computed.ok) =>
        /\ ret = AllocError_Layout
        /\ box = NoBox
        /\ mem = EmptyMem

C8_Witness ==
    /\ op.name = "try_emplace_pin"
    /\ op.provider = SliceLayoutProvider(UsizeMax)
    /\ T.size = 1
    /\ ret = AllocError_Layout

\* the call returned AllocError::Init from an initializer that fills a slice
SliceRollback ==
    /\ Emplaced
    /\ op.init.tag = "SliceInit"
    /\ ret.tag = "Err"
    /\ ret.err.kind = "Init"

\* the events of a failing call in order: the closure's calls up to the failing
\* one, the destructors of the completed prefix, the deallocation of the block
RollbackOrder ==
    SliceRollback =>
        LET layout == Computed.layout
            place == IF layout.size = 0 THEN layout.align ELSE op.a
            k == OwnRollback(op.init)
            n == Len(mem.log)
        IN  /\ n >= 2 * k + 3
            /\ \A i \in 1 .. k :
                   mem.log[n - 2 * k - 2 + i] =
                       [ev |-> "call", addr |-> PtrAdd(place, i - 1), ok |-> TRUE]
            /\ mem.log[n - k - 1] =
                   [ev |-> "call", addr |-> PtrAdd(place, k), ok |-> FALSE]
            /\ SubSeq(mem.log, n - k, n - 1) = PrefixDrops(place, k)
            /\ mem.log[n] = DeallocEv(place, layout)
            /\ \A i \in 1 .. n - k - 1 : mem.log[i].ev \notin {"drop", "dealloc"}
            /\ box = NoBox
            /\ phase = "done"

Unwrapped == op.name \in {"emplace", "emplace_pin"}
\* what the try_ function called by the last emplace / emplace_pin returned
Tried ==
    IF op.name = "emplace"
    THEN try_emplace(op.provider, op.init, op.a, EmptyMem)
    ELSE try_emplace_pin(op.provider, op.init, op.a, EmptyMem)

\* C22: emplace / emplace_pin return normally only when try_emplace /
\* try_emplace_pin succeeded, and then with its Box; on AllocError::Init and
\* AllocError::Layout they panic with a message, on AllocError::Alloc(layout)
\* they call the allocator's out-of-memory handler with that layout; after a
\* failure no Box is returned.
C22_InfallibleWrappers ==
    (Unwrapped /\ ret # ResAbort) =>
        /\ mem = Tried.m
        /\ ret.tag = "Ok" <=> Tried.res.tag = "Ok"
        /\ ret.tag = "Ok" => box = Tried.box /\ box.valid
        /\ ret.tag # "Ok" => box = NoBox /\ phase = "done"
        /\ Tried.res.tag = "Err" =>
               LET err == Tried.res.err
               IN  /\ err.kind = "Init" =>
                       ret = PanicWith(<<"Failed to initialize value", err.e>>)
                   /\ err.kind = "Layout" =>
                       ret = PanicWith(<<"Could not compute layout for value">>)
                   /\ err.kind = "Alloc" =>
                       ret = handle_alloc_error(Computed.layout)

C22_Witness ==
    /\ op.name = "emplace"
    /\ op.provider = SliceLayoutProvider(2)
    /\ T.size = 1
    /\ op.a = 0
    /\ ret = handle_alloc_error([size |-> 2, align |-> T.align])

C22_WitnessPanic ==
    /\ op.name = "emplace_pin"
    /\ op.provider = SizedLayoutProvider
    /\ T.size = 2
    /\ op.init = InitErr("e1")
    /\ ret = PanicWith(<<"Failed to initialize value", "e1">>)
    /\ box = NoBox

\* cast and cast_nonnull give back the address they were given; the pointer
\* of SliceLayoutProvider(n) has length n
CastIdentity ==
    \A provider \in AllProviders, ptr \in CastAddrs :
        LET len == IF provider.kind = "Slice" THEN provider.len ELSE 1
        IN  /\ cast(provider, ptr) = [ptr |-> ptr, len |-> len]
            /\ ptr # 0 => cast_nonnull(provider, ptr) = [ptr |-> ptr, len |-> len]

\* C24: cast and cast_nonnull of SizedLayoutProvider and SliceLayoutProvider(n)
\* return the address they were given (with length n for the slice), so in a
\* call of try_emplace / try_emplace_pin the address allocated, the address
\* handed to the initializer, the address deallocated on rollback and the
\* address the returned Box owns are one and the same.
C24_CastIdentity ==
    /\ CastIdentity
    /\ (Emplaced /\ RanInit) =>
           LET layout == Computed.layout
               place == IF layout.size = 0 THEN layout.align ELSE op.a
               len == IF op.provider.kind = "Slice" THEN op.provider.len ELSE 1
               typed == [ptr |-> place, len |-> len]
           IN  /\ \A i \in 1 .. Len(mem.log) :
                      /\ mem.log[i].ev \in {"alloc", "dealloc"} => mem.log[i].ptr = place
                      /\ mem.log[i].ev = "init" => mem.log[i].ptr = typed
               /\ Len(Inits(mem.log)) = 1
               /\ ret.tag = "Ok" => box.valid /\ box.p = typed
               /\ (ret.tag = "Err" /\ layout.size # 0) =>
                      /\ Allocs(mem.log) = <<AllocEv(layout, place)>>
                      /\ Deallocs(mem.log) = <<DeallocEv(place, layout)>>

C24_Witness ==
    /\ op.name = "try_emplace"
    /\ op.provider = SliceLayoutProvider(3)
    /\ T.size = 2
    /\ op.a = 32
    /\ ret.tag = "Ok"
    /\ box.p = [ptr |-> 32, len |-> 3]
    /\ Allocs(mem.log) = <<AllocEv([size |-> 6, align |-> T.align], 32)>>

C24_WitnessRollback ==
    /\ op.name = "try_emplace"
    /\ op.provider = SizedLayoutProvider
    /\ T.size = 1
    /\ op.a = 16
    /\ ret.tag = "Err"
    /\ ret.err.kind = "Init"
    /\ Deallocs(mem.log) = <<DeallocEv(16, T)>>

\* the call of the closure that panics
FirstPanic(f) == CHOOSE i \in DOMAIN f : f[i].tag = "Panic"
\* the elements the initializer had built when it panicked
Unwound(init) == IF init.tag = "SliceInit" THEN FirstPanic(init.f) - 1 ELSE 0

\* C29: when the initializer of try_emplace / try_emplace_pin leaves by
\* unwinding, the call ends in that panic with no Box produced, and the block
\* it allocated is deallocated exactly once, with its layout, after the
\* destructors of what the initializer had built: nothing is deallocated that
\* was not allocated.  Checked under UnwindSpec.
C29_UnwindReleases ==
    (Emplaced /\ RanInit) =>
        LET layout == Computed.layout
            place == IF layout.size = 0 THEN layout.align ELSE op.a
            allocated == Allocs(mem.log)
        IN  /\ ret = ResPanic
            /\ box = NoBox
            /\ allocated = IF layout.size = 0 THEN <<>> ELSE <<AllocEv(layout, op.a)>>
            /\ Deallocs(mem.log) =
                   [i \in DOMAIN allocated |->
                       DeallocEv(allocated[i].ptr, allocated[i].layout)]
            /\ Drops(mem.log) = PrefixDrops(place, Unwound(op.init))
            /\ layout.size # 0 => mem.log[Len(mem.log)] = DeallocEv(op.a, layout)
            /\ mem.heap = {}
            /\ mem.live = EmptyBag
            /\ ~mem.ub

----------------------------------------------------------------------------
(* Claims about pinned heap emplace of a self-referential value, checked    *)
(* under SelfRefSpec                                                        *)

\* the field current points at after the calls of trail: first until a
\* set_second, then whichever the last set_ call chose
Selected(trail) ==
    LET sets == { i \in 1 .. Len(trail) : trail[i] \in {"set_first", "set_second"} }
    IN  IF sets = {} \/ trail[CHOOSE i \in sets : \A j \in sets : j <= i] = "set_first"
        THEN "first" ELSE "second"

\* C20: a value built by emplace_pin lives, once the call has returned, at the
\* address its initializer was handed: the one init event of SelfRef::new is
\* at the address of the returned Pin<Box<SelfRef>>, the pointer captured
\* during initialization is the address of the field first of the boxed value,
\* and get() reads v through it, 0 after set_second and v again after set_first
C20_PinnedAddress ==
    (phase = "box" /\ box.valid) =>
        /\ box.pinned
        /\ Inits(mem.log) = <<[ev |-> "init", ptr |-> box.p]>>
        /\ op.name = "new" =>
               mem.store[box.p.ptr + CurrentOffset] = box.p.ptr + FirstOffset
        /\ mem.store[box.p.ptr + CurrentOffset] =
               box.p.ptr + (IF Selected(op.trail) = "first" THEN FirstOffset
                            ELSE SecondOffset)
        /\ op.name = "get" =>
               ret.val = IF Selected(op.trail) = "first" THEN op.val ELSE 0

\* the test of the crate: new(10), get, set_second, get, set_first, get
C20_Witness ==
    /\ phase = "box"
    /\ op.name = "get"
    /\ op.val = 10
    /\ op.trail = <<"get", "set_second", "get", "set_first", "get">>
    /\ ret.val = 10

----------------------------------------------------------------------------
(* Claims about the layout providers, checked under LayoutSpec *)

\* size_of::<T>() * len, in the integers
ExactSize(len) == T.size * len

C23_WitnessOverflow ==
    /\ op.name = "layout_for"
    /\ op.provider = SliceLayoutProvider(IsizeMax + 1)
    /\ T.size = 2
    /\ ExactSize(op.provider.len) > UsizeMax
    /\ ret = LayoutError

----------------------------------------------------------------------------
(* RawIter: the iterator over the element pointers of a slice.  For a      *)
(* zero-sized T start is a dangling pointer and end counts the elements    *)
(* left; otherwise start and end are the addresses of the first element    *)
(* left and of the one past the last.                                      *)

\* const ZERO_SIZED: bool = mem::size_of::<T>() == 0
ZERO_SIZED == T.size = 0

\* NonNull::dangling(): the alignment of T taken as an address
NonNull_dangling == T.align

Some(p) == [tag |-> "Some", ptr |-> p]
None == [tag |-> "None"]

\* what a method leaves behind: the iterator, the returned Option, and whether
\* it computed a pointer outside the slice (undefined)
Step(it, res, ub) == [it |-> it, res |-> res, ub |-> ub]

\* a faulty RawIter::new: end is the last element, not the one past it
RawIter_new_short(ptr) ==
    IF ptr.len = 0 THEN [start |-> ptr.ptr, end |-> ptr.ptr]
    ELSE IF ZERO_SIZED
    THEN [start |-> NonNull_dangling, end |-> ptr.len - 1]
    ELSE [start |-> ptr.ptr, end |-> PtrAdd(ptr.ptr, ptr.len - 1)]

\* RawIter::new(ptr)
RawIter_new(ptr) ==
    IF ZERO_SIZED
    THEN [start |-> NonNull_dangling, end |-> ptr.len]
    ELSE [start |-> ptr.ptr, end |-> PtrAdd(ptr.ptr, ptr.len)]

\* size_hint / len: self.end as usize, or end.offset_from(start) as usize
RawIter_len(it) ==
    IF ZERO_SIZED THEN it.end
    ELSE ((it.end - it.start) \div T.size) % (UsizeMax + 1)

\* RawIter::next
RawIter_next(it) ==
    IF ZERO_SIZED
    THEN IF it.end < 1 THEN Step(it, None, FALSE)
         ELSE Step([it EXCEPT !.end = @ - 1], Some(it.start), FALSE)
    ELSE IF it.end = it.start THEN Step(it, None, FALSE)
    ELSE Step([it EXCEPT !.start = PtrAdd(@, 1)], Some(it.start), FALSE)

\* RawIter::nth(n)
RawIter_nth(it, n) ==
    IF ZERO_SIZED
    THEN IF it.end < n THEN Step(it, None, FALSE)
         ELSE RawIter_next([it EXCEPT !.end = @ - n])
    ELSE IF RawIter_len(it) >= n
    THEN Step([it EXCEPT !.end = it.start], None, FALSE)
    ELSE \* reached only with n elements not left: start.add(n) is past the end
         Step([it EXCEPT !.start = PtrAdd(PtrAdd(@, n), 1)],
              Some(PtrAdd(it.start, n)), TRUE)

\* a faulty RawIter::next_back: the pointer returned is end before the step
RawIter_next_back_stale(it) ==
    IF ZERO_SIZED THEN RawIter_next(it)
    ELSE IF it.end = it.start THEN Step(it, None, FALSE)
    ELSE Step([it EXCEPT !.end = PtrAdd(@, 0 - 1)], Some(it.end), FALSE)

\* RawIter::next_back
RawIter_next_back(it) ==
    IF ZERO_SIZED THEN RawIter_next(it)
    ELSE IF it.end = it.start THEN Step(it, None, FALSE)
    ELSE Step([it EXCEPT !.end = PtrAdd(@, 0 - 1)],
              Some(PtrAdd(it.end, 0 - 1)), FALSE)

\* RawIter::nth_back(n)
RawIter_nth_back(it, n) ==
    IF ZERO_SIZED THEN RawIter_nth(it, n)
    ELSE IF RawIter_len(it) >= n
    THEN Step([it EXCEPT !.end = it.start], None, FALSE)
    ELSE \* reached only with n elements not left: end.sub(n + 1) is before start
         Step([it EXCEPT !.end = PtrAdd(@, 0 - (n + 1))],
              Some(PtrAdd(it.end, 0 - (n + 1))), TRUE)

----------------------------------------------------------------------------
(* core::iter::StepBy over a RawIter, as the tests use it *)

\* the step of iter.step_by(3)
StepSize == 3

\* iter.step_by(StepSize)
StepBy_new(it) == [iter |-> it, first_take |-> TRUE]

\* StepBy::next: the first element by next, the later ones by nth(step - 1)
StepBy_next(sb) ==
    IF sb.first_take THEN RawIter_next(sb.iter)
    ELSE RawIter_nth(sb.iter, StepSize - 1)

\* StepBy::next_back_index
StepBy_next_back_index(sb) ==
    LET rem == RawIter_len(sb.iter) % StepSize
    IN  IF sb.first_take
        THEN IF rem = 0 THEN StepSize - 1 ELSE rem - 1
        ELSE rem

\* StepBy::next_back
StepBy_next_back(sb) == RawIter_nth_back(sb.iter, StepBy_next_back_index(sb))

\* the items of the adapter taken from the front (back FALSE) or from the back
\* until it answers None, after acc
RECURSIVE StepBy_collect(_, _, _, _)
StepBy_collect(back, sb, acc, ub) ==
    LET r == IF back THEN StepBy_next_back(sb) ELSE StepBy_next(sb)
    IN  IF r.res.tag = "None"
        THEN [items |-> acc, ub |-> ub]
        ELSE StepBy_collect(back,
                            [iter |-> r.it,
                             first_take |-> IF back THEN sb.first_take ELSE FALSE],
                            Append(acc, r.res.ptr), ub \/ r.ub)

----------------------------------------------------------------------------
(* The caller of RawIter *)

\* arguments of nth and nth_back
Ns == 0 .. MaxLen + 1

ITInit ==
    /\ T \in ElemTypes
    /\ phase = "uninit"
    /\ buf \in { [ptr |-> a, len |-> n] : a \in BufAddrs, n \in 0 .. MaxLen }
    /\ writer = NoWriter
    /\ handle = NoHandle
    /\ mem = EmptyMem
    /\ op = [name |-> "none"]
    /\ ret = NoRet
    /\ box = NoBox

\* let iter = RawIter::new(ptr)
IT_new ==
    /\ phase = "uninit"
    /\ writer' = RawIter_new(buf)
    /\ phase' = "iter"
    /\ op' = [name |-> "new", out |-> <<>>, used |-> {}]
    /\ ret' = NoRet
    /\ UNCHANGED <<T, buf, handle, mem, box>>

\* iter.len()
IT_len ==
    /\ phase = "iter"
    /\ ~mem.ub
    /\ op' = [name |-> "len", out |-> op.out, used |-> op.used]
    /\ ret' = [tag |-> "Len", val |-> RawIter_len(writer)]
    /\ UNCHANGED <<T, phase, buf, writer, handle, mem, box>>

\* a method of the iterator called with n (0 where it takes none) that left r:
\* the items handed out so far are kept with the method they came from, and
\* so are the methods called so far
Stepped(name, n, via, r) ==
    /\ writer' = r.it
    /\ ret' = r.res
    /\ mem' = [mem EXCEPT !.ub = r.ub]
    /\ op' = [name |-> name, n |-> n, before |-> writer, left |-> RawIter_len(writer),
              used |-> op.used \cup {name},
              out |-> IF r.res.tag = "Some"
                      THEN Append(op.out, [via |-> via, by |-> name, ptr |-> r.res.ptr])
                      ELSE op.out]
    /\ UNCHANGED <<T, phase, buf, handle, box>>

\* iter.next()
IT_next ==
    /\ phase = "iter"
    /\ ~mem.ub
    /\ Stepped("next", 0, "front", RawIter_next(writer))

\* iter.nth(n)
IT_nth ==
    /\ phase = "iter"
    /\ ~mem.ub
    /\ \E n \in Ns : Stepped("nth", n, "front", RawIter_nth(writer, n))

\* iter.next_back()
IT_next_back ==
    /\ phase = "iter"
    /\ ~mem.ub
    /\ Stepped("next_back", 0, "back", RawIter_next_back(writer))

\* iter.nth_back(n)
IT_nth_back ==
    /\ phase = "iter"
    /\ ~mem.ub
    /\ \E n \in Ns : Stepped("nth_back", n, "back", RawIter_nth_back(writer, n))

\* the loop over adapter ran to its end and its items are in r
Collected(name, r) ==
    /\ phase' = "done"
    /\ op' = [name |-> name, out |-> <<>>, used |-> {name}]
    /\ ret' = [tag |-> "Collected", items |-> r.items]
    /\ mem' = [mem EXCEPT !.ub = r.ub]
    /\ UNCHANGED <<T, buf, writer, handle, box>>

\* for j in iter.step_by(3)
IT_step_by ==
    /\ phase = "iter"
    /\ op.name = "new"
    /\ Collected("step_by", StepBy_collect(FALSE, StepBy_new(writer), <<>>, FALSE))

\* for j in iter.step_by(3).rev()
IT_step_by_rev ==
    /\ phase = "iter"
    /\ op.name = "new"
    /\ Collected("step_by_rev", StepBy_collect(TRUE, StepBy_new(writer), <<>>, FALSE))

ITNext ==
    \/ IT_new
    \/ IT_len
    \/ IT_next
    \/ IT_nth
    \/ IT_next_back
    \/ IT_nth_back
    \/ IT_step_by
    \/ IT_step_by_rev

IterSpec == ITInit /\ [][ITNext]_vars

----------------------------------------------------------------------------
(* InitIter / PinnedInitIter: a RawIter over the elements of an Init<[T]>,   *)
(* each pointer it yields wrapped in an Init<T> (a Pin<Init<T>> for the      *)
(* pinned iterator, which forwards every method to an InitIter).             *)

\* RawIter::as_slice: the elements still in the iterator
RawIter_as_slice(it) == [ptr |-> it.start, len |-> RawIter_len(it)]

\* InitIter::new(init): RawIter::new(init.into_raw()), no destructor runs
InitIter_new(init, m) ==
    [it |-> RawIter_new(Init_into_raw(init, m).ptr),
     m |-> Init_into_raw(init, m).m]

\* Drop for InitIter: self.raw.as_slice().as_ptr().drop_in_place()
InitIter_drop(it, m) ==
    drop_in_place(RawIter_as_slice(it).ptr, RawIter_as_slice(it).len, m)

\* InitIter::finish: mem::forget(self), Init::from_raw_nonnull(as_slice)
InitIter_finish(it) ==
    [ptr |-> RawIter_as_slice(it).ptr, len |-> RawIter_as_slice(it).len,
     valid |-> TRUE]

----------------------------------------------------------------------------
(* The caller of InitIter *)

\* where element i of the slice is for the handles: a zero-sized value has
\* no bytes and is the same value at every aligned address, so it is counted
\* at the dangling address RawIter names it by
ElemAt(i) == IF ZERO_SIZED THEN NonNull_dangling ELSE PtrAdd(buf.ptr, i)

\* the slice behind an Init<[T]>: every element holds a value
FilledMem(n) ==
    [EmptyMem EXCEPT
        !.live = BagOfAll(LAMBDA i : ElemAt(i), SetToBag(0 .. n - 1))]

IIInit ==
    /\ T \in ElemTypes
    /\ phase = "handle"
    /\ buf \in { [ptr |-> a, len |-> n] : a \in BufAddrs, n \in 0 .. MaxLen }
    /\ writer = NoWriter
    /\ handle = [ptr |-> ElemAt(0), len |-> buf.len, valid |-> TRUE]
    /\ mem = FilledMem(buf.len)
    /\ op = [name |-> "none", n |-> 0, held |-> <<>>, used |-> {}]
    /\ ret = NoRet
    /\ box = NoBox

\* let iter = InitIter::new(init)
II_new ==
    /\ phase = "handle"
    /\ op.name = "none"
    /\ writer' = InitIter_new(handle, mem).it
    /\ mem' = InitIter_new(handle, mem).m
    /\ handle' = NoHandle
    /\ phase' = "iter"
    /\ op' = [op EXCEPT !.name = "new"]
    /\ ret' = NoRet
    /\ UNCHANGED <<T, buf, box>>

\* a method of the iterator left r: an Init<T> over the pointer it returned
\* joins the handles the caller holds
Yielded(name, n, r) ==
    /\ writer' = r.it
    /\ ret' = r.res
    /\ mem' = [mem EXCEPT !.ub = r.ub]
    /\ op' = [name |-> name, n |-> n, used |-> op.used \cup {name},
              held |-> IF r.res.tag = "Some" THEN Append(op.held, r.res.ptr)
                       ELSE op.held]
    /\ UNCHANGED <<T, phase, buf, handle, box>>

II_next ==
    /\ phase = "iter"
    /\ ~mem.ub
    /\ Yielded("next", 0, RawIter_next(writer))

II_nth ==
    /\ phase = "iter"
    /\ ~mem.ub
    /\ \E n \in Ns : Yielded("nth", n, RawIter_nth(writer, n))

II_next_back ==
    /\ phase = "iter"
    /\ ~mem.ub
    /\ Yielded("next_back", 0, RawIter_next_back(writer))

II_nth_back ==
    /\ phase = "iter"
    /\ ~mem.ub
    /\ \E n \in Ns : Yielded("nth_back", n, RawIter_nth_back(writer, n))

\* let rest = iter.finish()
II_finish ==
    /\ phase = "iter"
    /\ ~mem.ub
    /\ handle' = InitIter_finish(writer)
    /\ writer' = NoWriter
    /\ phase' = "rest"
    /\ op' = [op EXCEPT !.name = "finish", !.used = @ \cup {"finish"}]
    /\ ret' = NoRet
    /\ UNCHANGED <<T, buf, mem, box>>

\* the iterator goes out of scope
II_drop ==
    /\ phase = "iter"
    /\ ~mem.ub
    /\ mem' = InitIter_drop(writer, mem)
    /\ writer' = NoWriter
    /\ phase' = "gone"
    /\ op' = [op EXCEPT !.name = "drop"]
    /\ ret' = NoRet
    /\ UNCHANGED <<T, buf, handle, box>>

\* the caller drops the Init<T> it has held longest
II_drop_item ==
    /\ phase \in {"iter", "rest", "gone"}
    /\ op.held # <<>>
    /\ mem' = Init_drop([ptr |-> Head(op.held), len |-> 1], mem)
    /\ op' = [op EXCEPT !.held = Tail(@)]
    /\ UNCHANGED <<T, phase, buf, writer, handle, ret, box>>

\* the caller drops the Init<[T]> finish returned
II_drop_rest ==
    /\ phase = "rest"
    /\ mem' = Init_drop(handle, mem)
    /\ handle' = NoHandle
    /\ phase' = "gone"
    /\ op' = [op EXCEPT !.name = "drop_rest"]
    /\ UNCHANGED <<T, buf, writer, ret, box>>

IINext ==
    \/ II_new
    \/ II_next
    \/ II_nth
    \/ II_next_back
    \/ II_nth_back
    \/ II_finish
    \/ II_drop
    \/ II_drop_item
    \/ II_drop_rest

InitIterSpec == IIInit /\ [][IINext]_vars

----------------------------------------------------------------------------
(* Claims about RawIter, checked under IterSpec *)

\* the pointer to element i of the slice the iterator was made of; every
\* element of a zero-sized type is handed out as the dangling pointer
ElemPtr(i) == IF ZERO_SIZED THEN NonNull_dangling ELSE PtrAdd(buf.ptr, i)

\* an iterator is held and has done nothing undefined
Iterating == phase = "iter" /\ ~mem.ub

\* C25: a RawIter over a slice of length n reports len() = n, and next alone
\* yields exactly n pointers, the i-th the address of element i, and then
\* None; for a zero-sized T it yields exactly n items too.
C25_Forward ==
    (Iterating /\ op.used \subseteq {"next"}) =>
        /\ RawIter_len(writer) = buf.len - Len(op.out)
        /\ Len(op.out) <= buf.len
        /\ \A i \in 1 .. Len(op.out) : op.out[i].ptr = ElemPtr(i - 1)
        /\ op.name = "len" => ret.val = buf.len - Len(op.out)
        /\ op.name = "next" =>
               IF op.left = 0 THEN ret = None /\ Len(op.out) = buf.len
               ELSE ret = Some(ElemPtr(Len(op.out) - 1))

C25_Witness ==
    /\ Iterating
    /\ op.used = {"next"}
    /\ op.name = "next"
    /\ T.size = 2
    /\ buf.len = MaxLen
    /\ Len(op.out) = MaxLen
    /\ op.out[MaxLen].ptr = PtrAdd(buf.ptr, MaxLen - 1)
    /\ ret = None

C25_WitnessZeroSized ==
    /\ Iterating
    /\ op.used = {"next"}
    /\ op.name = "next"
    /\ ZERO_SIZED
    /\ buf.len = MaxLen
    /\ Len(op.out) = MaxLen
    /\ ret = None

\* the items step_by(3) is to hand out over a slice of length n: elements
\* 0, 3, 6, ..., that is ceil(n / 3) of them
EveryThird(n) == [i \in 1 .. (n + StepSize - 1) \div StepSize |-> ElemPtr(StepSize * (i - 1))]

\* nth(k) with m elements left handed out the element k after the front and
\* left m - k - 1, or answered None for k >= m
NthSkips ==
    op.name = "nth" =>
        IF op.n < op.left
        THEN /\ ret = Some(IF ZERO_SIZED THEN NonNull_dangling
                           ELSE PtrAdd(op.before.start, op.n))
             /\ RawIter_len(writer) = op.left - op.n - 1
             /\ ~mem.ub
        ELSE ret = None

\* C26: nth(k) on an iterator with m elements left returns the pointer to the
\* element k after the front and leaves m - k - 1 elements when k < m, and
\* None when k >= m; so step_by(3) over a slice of length n yields elements
\* 0, 3, 6, ..., ceil(n / 3) items, whether T is zero-sized or not.
C26_Nth ==
    /\ NthSkips
    /\ op.name = "step_by" => ret.items = EveryThird(buf.len) /\ ~mem.ub

\* which elements the items handed out so far are: item j from the front is
\* the j-th element, item j from the back the j-th from the end
Fronts(out) == SelectSeq(out, LAMBDA o : o.via = "front")
Backs(out) == SelectSeq(out, LAMBDA o : o.via = "back")

\* C27: next_back yields the elements of a slice of length n from the last to
\* the first, n items when used alone; however next and next_back are
\* interleaved each element is yielded exactly once, and len() is always the
\* number of elements not yet yielded.
C27_Backward ==
    (Iterating /\ op.used \subseteq {"next", "next_back"}) =>
        LET fronts == Fronts(op.out)
            backs == Backs(op.out)
        IN  /\ RawIter_len(writer) = buf.len - Len(op.out)
            /\ Len(op.out) <= buf.len
            /\ \A i \in 1 .. Len(fronts) : fronts[i].ptr = ElemPtr(i - 1)
            /\ \A i \in 1 .. Len(backs) : backs[i].ptr = ElemPtr(buf.len - i)
            /\ op.name = "len" => ret.val = buf.len - Len(op.out)
            /\ op.name \in {"next", "next_back"} =>
                   (ret = None <=> op.left = 0)

C27_Witness ==
    /\ Iterating
    /\ op.used = {"next_back"}
    /\ op.name = "next_back"
    /\ T.size = 2
    /\ buf.len = MaxLen
    /\ Len(op.out) = MaxLen
    /\ op.out[1].ptr = PtrAdd(buf.ptr, MaxLen - 1)
    /\ op.out[MaxLen].ptr = buf.ptr
    /\ ret = None

C27_WitnessInterleaved ==
    /\ Iterating
    /\ op.used = {"next", "next_back"}
    /\ T.size = 1
    /\ buf.len = 4
    /\ Len(op.out) = 4
    /\ op.out[1].via = "back"
    /\ op.out[2].via = "front"
    /\ op.out[3].via = "back"
    /\ op.out[4].via = "front"
    /\ { op.out[i].ptr : i \in 1 .. 4 } = { PtrAdd(buf.ptr, i) : i \in 0 .. 3 }
    /\ RawIter_len(writer) = 0

\* a sequence back to front
Reverse(q) == [i \in 1 .. Len(q) |-> q[Len(q) + 1 - i]]

\* nth_back(k) with m elements left handed out the element k before the back
\* and left m - k - 1, or answered None for k >= m
NthBackSkips ==
    op.name = "nth_back" =>
        IF op.n < op.left
        THEN /\ ret = Some(IF ZERO_SIZED THEN NonNull_dangling
                           ELSE PtrAdd(op.before.end, 0 - (op.n + 1)))
             /\ RawIter_len(writer) = op.left - op.n - 1
             /\ ~mem.ub
        ELSE ret = None

\* C28: nth_back(k) on an iterator with m elements left returns the pointer to
\* the element k before the back and leaves m - k - 1 elements when k < m, and
\* None when k >= m; so step_by(3) taken in reverse over a slice of length n
\* visits the elements whose index is a multiple of 3, ceil(n / 3) items, from
\* the highest down.
C28_NthBack ==
    /\ NthBackSkips
    /\ op.name = "step_by_rev" =>
           ret.items = Reverse(EveryThird(buf.len)) /\ ~mem.ub

----------------------------------------------------------------------------
(* Claims about InitIter, checked under InitIterSpec *)

\* the iterator and every handle it gave out are gone
AllDropped == phase = "gone" /\ op.held = <<>>

\* C34: once an InitIter (PinnedInitIter) driven by any sequence of next,
\* next_back, nth, nth_back and finish is gone together with every handle it
\* produced, each element of the slice has been destructed exactly once:
\* none is still live, none was destructed without being live.
C34_EachOnce ==
    AllDropped =>
        /\ ~mem.ub
        /\ mem.live = EmptyBag
        /\ Len(Drops(mem.log)) = buf.len

============================================================================
